---- MODULE Spec2Model ----
(***************************************************************************)
(* Instance lifecycle and event routing of the OpenCode Telegram bot.      *)
(*                                                                         *)
(* The module holds several specifications over one set of variables; a    *)
(* specification leaves the variables of the other parts unchanged.        *)
(*   SpecLaunch  discovery, port allocation, launch, registry              *)
(*               (src/src/opencode/client.ts, src/src/bot/commands.ts)     *)
(*   SpecStream  one Event Stream Client: connect / read / reconnect       *)
(*               (client.ts subscribeToEvents)                             *)
(*   SpecRoute   user session state and the router's lookup, one handler   *)
(*               at a time (src/unnamed/part_002, commands.ts,             *)
(*               src/src/services/session-manager.ts)                      *)
(*   SpecAssemble  the delta assembler, events handled in sequence         *)
(*               (part_002 handleMessagePart / handleMessageComplete)      *)
(*   SpecAsync   the same handlers as concurrent, un-awaited tasks         *)
(*               (src/src/index.ts callback, part_002)                     *)
(*   SpecDiscover  launchOnProject on a host with listeners on the ports   *)
(*   SpecOverlap   launchOnProject called again before it has returned     *)
(*   SpecUsers   the users' operations on their stored sessions            *)
(*   SpecBot     the bot's authorization and rate-limit middleware         *)
(*               (commands.ts createBot)                                   *)
(*   SpecValidate, SpecClient, SpecChunk  one call of validateProjectPath, *)
(*               of a backend client operation, of chunkMessage            *)
(*   SpecExtract, SpecHandle, SpecSession  one call of routeEventToUser    *)
(*               up to its session id test, of handleOpenCodeEvent, of     *)
(*               SessionManager.createSession / deleteSession              *)
(*   SpecSweep   cleanupOldSessions next to the users' messages            *)
(*   SpecSelect  the session keyboards of open_project / attach_session    *)
(*   SpecTwoSessions  the delta assembler, two sessions of one user on     *)
(*               one instance                                              *)
(***************************************************************************)
EXTENDS Integers, Sequences, FiniteSets, TLC

VARIABLES
    \* ---- launcher (client.ts) ----
    clientInstances,    \* registry: instance id -> [port, projectPath]
    spawnedProcesses,   \* instance id -> pid of the tracked child handle
    procs,              \* OS process table: `opencode serve` processes
    subscribed,         \* instance ids whose subscribeToEvents was called
    calls,              \* launchOnProject invocations, one record per call
    nextPid,            \* next pid the OS hands out
    mainPc,             \* position of main() in index.ts
    \* ---- event stream client (client.ts subscribeToEvents) ----
    streamPc,           \* position of connect()
    aborted,            \* abortController.signal.aborted
    buffer,             \* the local `buffer` of connect(): undelivered tail
    lines,              \* complete lines of the chunk being processed
    socket,             \* characters the backend has sent, not yet read
    cbCalls,            \* events handed to the callback, in call order
    wire,               \* characters read on the current connection
    closedFrames,       \* valid frames of the connections already closed
    linesLeft,          \* writes the backend may still make
    callsAfterAbort,    \* callback invocations made after abort()
    carried,            \* length of the carry-over inside the first of `lines`
    splitDelivered,     \* a frame read in two chunks reached the callback
    \* ---- router, delta assembler, user state (part_002, session-manager) ----
    store,              \* storage: user id -> persisted UserSessionState
    backendSessions,    \* <<instance id, session id>> existing on the backends
    messageBuffers,     \* MessageService.messageBuffers: buffer key -> text
    deliveries,         \* calls of sendMessageToUser, in call order
    tasks,              \* routeEventToUser invocations in flight, oldest first
    eventsLeft,         \* events the streams may still hand over
    usedSessions,       \* <<instance id, session id>> ever made by a backend
    fed,                \* per buffer key: the text fragments handled, in order
    phase,              \* per buffer key: what has been handled so far
    lastRoute,          \* outcome of the last routeEventToUser lookup
    \* ---- one call of a function studied on its own ----
    arg,                \* the arguments of the call
    ret,                \* what the call gave back, once it has returned
    \* ---- the bot's middleware (commands.ts createBot) ----
    now,                \* Date.now(), in ticks
    userMessageCounts,  \* rate limiter: user id -> [count, resetTime]
    passed,             \* per user: times of the updates given to the handlers
    reached,            \* <<user id, chat type>> of the updates given to them
    lastUpdate,         \* the last update received and what became of it
    updatesLeft,        \* updates Telegram may still deliver
    \* ---- the cleanup sweep (session-manager.ts cleanupOldSessions) ----
    lastActivity,       \* user id -> lastActivity of the stored state, in ticks
    sweep,              \* position and locals of cleanupOldSessions
    \* ---- session selection keyboards (commands.ts callback_query) ----
    sessionSelections,  \* sessionSelections: user id -> list of selections
    keyboards,          \* the session keyboards shown in the chats
    lastAttach          \* the last attach_session press and what it attached

launchVars == <<clientInstances, spawnedProcesses, procs, subscribed, calls,
                nextPid, mainPc>>
streamVars == <<streamPc, aborted, buffer, lines, socket, cbCalls, wire,
                closedFrames, linesLeft, callsAfterAbort, carried,
                splitDelivered>>
routeVars == <<store, backendSessions, messageBuffers, deliveries, tasks,
               eventsLeft, usedSessions, fed, phase, lastRoute>>
callVars == <<arg, ret>>
botVars == <<now, userMessageCounts, passed, reached, lastUpdate, updatesLeft>>
sweepVars == <<lastActivity, sweep>>
selectVars == <<sessionSelections, keyboards, lastAttach>>
vars == <<launchVars, streamVars, routeVars, callVars, botVars, sweepVars,
          selectVars>>

(***************************************************************************)
(* Bounds of the model.                                                    *)
(***************************************************************************)
MaxCalls == 2        \* launchOnProject invocations explored
MaxRetries == 2      \* health probes of waitForOpenCode (30 in the code)
PortAttempts == 2    \* ports probed by findAvailablePort (100 in the code)
MaxLines == 2        \* writes of the backend over all connections
MaxEvents == 4       \* events handed to the delta assembler, in sequence
MaxTasks == 3        \* events handed to the router without waiting
MaxRoutes == 1       \* events routed while the users change their sessions
messageChunkSize == 4  \* config.bot.messageChunkSize, scaled (3500 by default)

(***************************************************************************)
(* Paths.  A path is a record [abs, segs]; node:path functions are         *)
(* modelled on the segments.                                               *)
(***************************************************************************)
Path(abs, segs) == [abs |-> abs, segs |-> segs]

RECURSIVE NormSegs(_, _)
NormSegs(segs, acc) ==
    IF segs = <<>> THEN acc
    ELSE LET h == Head(segs)
             t == Tail(segs)
         IN  IF h = "." \/ h = "" THEN NormSegs(t, acc)
             ELSE IF h = ".."
                  THEN NormSegs(t, IF acc = <<>> THEN <<>>
                                   ELSE SubSeq(acc, 1, Len(acc) - 1))
                  ELSE NormSegs(t, Append(acc, h))

\* normalize() of an absolute POSIX path (every path launched is absolute)
normalize(p) == Path(p.abs, NormSegs(p.segs, <<>>))

\* basename(): the last segment as written
basename(p) == IF p.segs = <<>> THEN "" ELSE p.segs[Len(p.segs)]

isAbsolute(p) == p.abs

IsPrefix(s, t) == Len(s) <= Len(t) /\ SubSeq(t, 1, Len(s)) = s

\* normalized === base || normalized.startsWith(base + sep)
UnderOrEqual(p, base) == IsPrefix(base.segs, p.segs)

\* String.includes('..') on a path string: some segment holds two dots
SegHasDotDot(s) == s \in {"..", "a..b"}
includesDotDot(p) == \E i \in 1..Len(p.segs) : SegHasDotDot(p.segs[i])

BLOCKED_PATHS ==
    { Path(TRUE, <<s>>) : s \in {"root", "home", "etc", "usr", "bin", "sbin",
                                 "lib", "var", "tmp", "boot"} }

\* config.security of the deployment explored
allowedProjectPaths == { Path(TRUE, <<"opt", "projects">>),
                         Path(TRUE, <<"srv", "work">>) }
enableRootAccess == FALSE

\* the file system of the host explored
PathOptFoo == Path(TRUE, <<"opt", "projects", "foo">>)
PathOptBar == Path(TRUE, <<"opt", "projects", "bar">>)
PathSrvFoo == Path(TRUE, <<"srv", "work", "foo">>)
FsDirectories == { Path(TRUE, <<"opt", "projects">>), Path(TRUE, <<"srv", "work">>),
                   PathOptFoo, PathOptBar, PathSrvFoo }
FsFiles == {}
FsMarked == { PathOptFoo, PathOptBar }   \* directories holding an indicator
existsSync(p) == p \in FsDirectories \cup FsFiles
isDirectory(p) == p \in FsDirectories
hasIndicator(p) == p \in FsMarked

isPathAllowed(p) ==
    IF enableRootAccess THEN TRUE
    ELSE \E a \in allowedProjectPaths : UnderOrEqual(normalize(p), normalize(a))

\* validateProjectPath: "" when valid, else the reason
validateProjectPath(p) ==
    IF p.segs = <<>> /\ ~p.abs THEN "Project path is required"
    ELSE IF ~isAbsolute(p) THEN "Project path must be absolute"
    ELSE IF includesDotDot(normalize(p)) THEN "Path traversal detected"
    ELSE IF \E b \in BLOCKED_PATHS : UnderOrEqual(normalize(p), b)
         THEN "Cannot use system directory as project path"
    ELSE IF ~isPathAllowed(p) THEN "Path not in allowed directories"
    ELSE IF ~existsSync(normalize(p)) THEN "Project path does not exist"
    ELSE IF ~isDirectory(normalize(p)) THEN "Project path is not a directory"
    ELSE IF ~hasIndicator(normalize(p))
         THEN "Directory does not appear to be a project"
    ELSE ""

\* the working directories a user can ask to open (listProjects entries)
LaunchPaths == { PathOptFoo, PathOptBar, PathSrvFoo }

(***************************************************************************)
(* Processes, ports and health.                                            *)
(***************************************************************************)
BasePort == 3100
Ports == BasePort .. (BasePort + PortAttempts - 1)
ExternalPort == 4096          \* port of a backend started by hand
ConfigId == "default"         \* config/index.ts single-instance id
ConfigPort == 3000

InstanceIdOf(leaf) == "project-" \o leaf

\* discoverRunningOpenCodeInstances: one entry per `opencode serve` process
discoverRunningOpenCodeInstances ==
    { [instanceId |-> InstanceIdOf(basename(normalize(p.cwd))),
       port |-> p.port, projectPath |-> normalize(p.cwd), pid |-> p.pid]
      : p \in procs }

\* a process is "starting" (not listening yet), "healthy" (its /session
\* answers with an ok status) or "refusing" (it answers with an error status)
Answering(port) ==
    { p \in procs : p.port = port /\ p.state \in {"healthy", "refusing"} }

\* an isOpenCodeRunning whose probe is satisfied by any reply
probeAnyReply(port) == Answering(port) # {}

\* a probe that reports success without asking
probeSkipped(port) == TRUE

\* isOpenCodeRunning(apiUrl): GET /session answers with an ok status
isOpenCodeRunning(port) ==
    \E p \in procs : p.port = port /\ p.state = "healthy"

\* findExistingOpenCodeForPath: the first discovered instance (ps order)
\* whose directory is the target and whose probe succeeds, or NoInstance
NoInstance == [instanceId |-> "", port |-> 0]
MatchesOf(path) ==
    { d \in discoverRunningOpenCodeInstances :
        d.projectPath = normalize(path) /\ isOpenCodeRunning(d.port) }
findExisting(path) ==
    IF MatchesOf(path) = {} THEN NoInstance
    ELSE LET d == CHOOSE d \in MatchesOf(path) :
                    \A e \in MatchesOf(path) : d.pid <= e.pid
         IN  [instanceId |-> d.instanceId, port |-> d.port]

\* the registry after findExistingOpenCodeForPath(path) returned `found`
RegistryAfterFind(path, found) ==
    IF found = NoInstance \/ found.instanceId \in DOMAIN clientInstances
    THEN clientInstances
    ELSE (found.instanceId :> [port |-> found.port,
                               projectPath |-> normalize(path)])
         @@ clientInstances

\* findAvailablePort, line 351-352: HEAD /session answers with an ok status
PortBusy(port) == \E p \in procs : p.port = port /\ p.state = "healthy"

\* a port search that stops at the first port whatever answers there
probeFirstOnly(i) == BasePort

\* findAvailablePort(3100): the loop from attempt i on; 0 stands for the
\* thrown "No available ports found"
RECURSIVE probeFrom(_)
probeFrom(i) ==
    IF i >= PortAttempts THEN 0
    ELSE IF ~PortBusy(BasePort + i) THEN BasePort + i
    ELSE probeFrom(i + 1)
findAvailablePort == probeFrom(0)

(***************************************************************************)
(* launchOnProject, one action per suspension point.                       *)
(***************************************************************************)
CallIds == 1..MaxCalls
IdleCall == [pc |-> "idle", path |-> PathOptFoo, id |-> "", port |-> 0,
             tries |-> 0, instanceId |-> "", error |-> "", spawned |-> 0,
             registered |-> FALSE, after |-> {}, regAtStart |-> {},
             regAtEnd |-> {}, looked |-> FALSE, sawMatch |-> FALSE,
             healthyMatch |-> FALSE, foundId |-> "",
             searched |-> FALSE, okPorts |-> {}, openPorts |-> {},
             childPid |-> 0, streamed |-> FALSE]
\* pc: position of the call; path, id: its argument and derived instance id;
\* instanceId, error: the returned result; spawned: child processes the call
\* spawned; registered: the call added a registry entry; after: the calls
\* that had returned when this one started; regAtStart, regAtEnd: the ids
\* in the registry when the call started and when it returned; looked,
\* foundId: findExistingOpenCodeForPath has returned, and the id it gave
\* ("" for null); sawMatch, healthyMatch: whether a process ran in the
\* directory then, and whether the port of one answered ok; searched, okPorts,
\* openPorts: findAvailablePort has returned, the ports that answered ok and
\* that answered at all then; childPid: the child the call spawned;
\* streamed: the call started an event stream

\* line 399: the error of a launch whose probes ran out
LaunchTimeout == "OpenCode did not start within timeout"

Returned == { c \in CallIds : calls[c].pc = "done" }

\* the bot handles one update at a time (grammy's bot.start() polling), so
\* a handler starts only when no other handler's launch is in flight
NoCallInFlight == \A c \in CallIds : calls[c].pc \in {"idle", "done"}

Finish(c, instanceId, error) ==
    [calls EXCEPT ![c].pc = "done", ![c].instanceId = instanceId,
                  ![c].error = error, ![c].regAtEnd = DOMAIN clientInstances']

\* lines 364-369: derive the id, return at once when it is registered
LaunchEnter(c, path) ==
    /\ mainPc # "exited"
    /\ calls[c].pc = "idle"
    /\ \A d \in CallIds : d < c => calls[d].pc # "idle"
    /\ LET id == InstanceIdOf(basename(path))
           started == [calls EXCEPT ![c].path = path, ![c].id = id,
                                    ![c].after = Returned,
                                    ![c].regAtStart = DOMAIN clientInstances]
       IN  calls' = IF id \in DOMAIN clientInstances
                    THEN [started EXCEPT ![c].pc = "done", ![c].instanceId = id,
                                         ![c].regAtEnd = DOMAIN clientInstances]
                    ELSE [started EXCEPT ![c].pc = "find"]
    /\ UNCHANGED <<clientInstances, spawnedProcesses, procs, subscribed,
                   nextPid, mainPc>>

\* commands.ts 240 and 383: launchOnProject called from a handler of the bot
LaunchStart(c, path) == NoCallInFlight /\ LaunchEnter(c, path)

\* lines 371-374: await findExistingOpenCodeForPath
LaunchFind(c) ==
    /\ mainPc # "exited"
    /\ calls[c].pc = "find"
    /\ LET found == findExisting(calls[c].path)
           seen == [calls EXCEPT
                      ![c].looked = TRUE,
                      ![c].foundId = found.instanceId,
                      ![c].sawMatch =
                          \E p \in procs :
                             normalize(p.cwd) = normalize(calls[c].path),
                      ![c].healthyMatch =
                          \E p \in procs :
                             /\ normalize(p.cwd) = normalize(calls[c].path)
                             /\ \E q \in procs : q.port = p.port
                                                   /\ q.state = "healthy"]
       IN  /\ clientInstances' = RegistryAfterFind(calls[c].path, found)
           /\ calls' = IF found = NoInstance
                       THEN [seen EXCEPT ![c].pc = "port"]
                       ELSE [seen EXCEPT
                               ![c].pc = "done",
                               ![c].instanceId = found.instanceId,
                               ![c].regAtEnd = DOMAIN clientInstances',
                               ![c].registered =
                                   found.instanceId \notin DOMAIN clientInstances]
    /\ UNCHANGED <<spawnedProcesses, procs, subscribed, nextPid, mainPc>>

\* lines 376-396 with spawnOpenCodeInstance (256-302): allocate the port,
\* validate the path, spawn the child and track its handle
LaunchSpawn(c) ==
    /\ mainPc # "exited"
    /\ calls[c].pc = "port"
    /\ LET port == findAvailablePort
           reason == validateProjectPath(calls[c].path)
           probed == [calls EXCEPT
                        ![c].searched = TRUE, ![c].port = port,
                        ![c].okPorts = { q \in Ports : PortBusy(q) },
                        ![c].openPorts = { q \in Ports : Answering(q) # {} }]
       IN  IF port = 0
           THEN /\ UNCHANGED <<spawnedProcesses, procs, nextPid, clientInstances>>
                /\ calls' = [probed EXCEPT
                               ![c].pc = "done", ![c].error = "No available ports",
                               ![c].regAtEnd = DOMAIN clientInstances]
           ELSE IF reason # ""
           THEN /\ UNCHANGED <<spawnedProcesses, procs, nextPid, clientInstances>>
                /\ calls' = [probed EXCEPT
                               ![c].pc = "done",
                               ![c].error = "Cannot auto-start OpenCode: " \o reason,
                               ![c].regAtEnd = DOMAIN clientInstances]
           ELSE /\ procs' = procs \cup
                      { [pid |-> nextPid, cwd |-> calls[c].path, port |-> port,
                         state |-> "starting", ours |-> TRUE,
                         id |-> calls[c].id] }
                /\ nextPid' = nextPid + 1
                /\ spawnedProcesses' =
                      (calls[c].id :> nextPid) @@ spawnedProcesses
                /\ calls' = [probed EXCEPT ![c].pc = "wait", ![c].spawned = 1,
                                           ![c].childPid = nextPid]
                /\ UNCHANGED clientInstances
    /\ UNCHANGED <<subscribed, mainPc>>

\* lines 397-411 with waitForOpenCode (246-254): one health probe
LaunchProbe(c) ==
    /\ mainPc # "exited"
    /\ calls[c].pc = "wait"
    /\ IF isOpenCodeRunning(calls[c].port)
       THEN /\ clientInstances' =
                  (calls[c].id :> [port |-> calls[c].port,
                                   projectPath |-> calls[c].path])
                  @@ [i \in DOMAIN clientInstances \ {calls[c].id}
                        |-> clientInstances[i]]
            /\ subscribed' = subscribed \cup {calls[c].id}
            /\ calls' = [Finish(c, calls[c].id, "") EXCEPT
                           ![c].registered = TRUE, ![c].streamed = TRUE]
       ELSE /\ UNCHANGED <<clientInstances, subscribed>>
            /\ calls' = IF calls[c].tries + 1 >= MaxRetries
                        THEN Finish(c, "", LaunchTimeout)
                        ELSE [calls EXCEPT ![c].tries = @ + 1]
    /\ UNCHANGED <<spawnedProcesses, procs, nextPid, mainPc>>

\* commands.ts 347-380: open_project asks findExistingOpenCodeForPath first
\* and attaches to what it finds
OpenProjectAttach(path) ==
    /\ mainPc # "exited"
    /\ NoCallInFlight
    /\ findExisting(path) # NoInstance
    /\ clientInstances' = RegistryAfterFind(path, findExisting(path))
    /\ clientInstances' # clientInstances
    /\ UNCHANGED <<spawnedProcesses, procs, subscribed, calls, nextPid, mainPc>>

\* the backend of a process starts answering
ProcHealthy(p) ==
    /\ p \in procs /\ p.state = "starting"
    /\ \A q \in procs \ {p} : q.port = p.port => q.state = "starting"
    /\ procs' = (procs \ {p}) \cup {[p EXCEPT !.state = "healthy"]}
    /\ UNCHANGED <<clientInstances, spawnedProcesses, subscribed, calls,
                   nextPid, mainPc>>

\* a process exits; for a child, the 'exit' handler (293-298) runs
ProcExit(p) ==
    /\ p \in procs
    /\ procs' = procs \ {p}
    /\ spawnedProcesses' =
          IF p.ours /\ mainPc # "exited"
          THEN [i \in DOMAIN spawnedProcesses \ {p.id} |-> spawnedProcesses[i]]
          ELSE spawnedProcesses
    /\ UNCHANGED <<clientInstances, subscribed, calls, nextPid, mainPc>>

\* index.ts 82-124: bot.start() returns and main subscribes to every
\* configured instance
MainSubscribe ==
    /\ mainPc = "polling"
    /\ mainPc' = "running"
    /\ subscribed' = subscribed \cup ({ConfigId} \cap DOMAIN clientInstances)
    /\ UNCHANGED <<clientInstances, spawnedProcesses, procs, calls, nextPid>>

\* cleanupSpawnedProcesses (446-451): SIGTERM to every tracked handle
Signalled(p) == [p EXCEPT !.state = "signalled"]
cleanupSpawnedProcesses ==
    { IF \E i \in DOMAIN spawnedProcesses : spawnedProcesses[i] = p.pid
      THEN Signalled(p) ELSE p : p \in procs }

\* index.ts 93-100: SIGINT or SIGTERM arrives.  While bot.start() is
\* pending no handler is installed and the default disposition ends the
\* process; afterwards `cleanup` stops the bot and calls process.exit(0).
\* Neither path calls cleanupSpawnedProcesses.
Shutdown ==
    /\ mainPc \in {"polling", "running"}
    /\ mainPc' = "exited"
    /\ UNCHANGED <<clientInstances, spawnedProcesses, procs, subscribed, calls,
                   nextPid>>

\* backends started by hand before the bot: any subset of these
ExternalCandidates ==
    { [pid |-> 1, cwd |-> PathSrvFoo, port |-> ExternalPort,
       state |-> "healthy", ours |-> FALSE, id |-> ""] }

\* the router part before any user or event: nothing stored, nothing buffered
Users == {1, 2}
Instances == {ConfigId, "project-foo"}
SessionIds == {"s1"}
getBufferKey(userId, instanceId) ==
    "buffer:" \o instanceId \o ":" \o ToString(userId)
BufferKeys == { getBufferKey(u, i) : u \in Users, i \in Instances }
NoRoute == [routed |-> FALSE, owners |-> {}, sameIdElsewhere |-> FALSE,
            userId |-> 0, changed |-> FALSE, inert |-> FALSE]
RouteIdle ==
    /\ store = <<>> /\ backendSessions = {} /\ messageBuffers = <<>>
    /\ deliveries = <<>> /\ tasks = <<>> /\ eventsLeft = 0
    /\ usedSessions = {}
    /\ fed = [k \in BufferKeys |-> <<>>]
    /\ phase = [k \in BufferKeys |-> "parts"]
    /\ lastRoute = NoRoute

\* no function call under study
NoArg == [fn |-> ""]
Pending == [done |-> FALSE]
CallIdle == arg = NoArg /\ ret = Pending

\* no update received yet
\* no sweep running, no keyboard shown
NoSweep == [pc |-> "idle", keys |-> <<>>, now |-> 0, left |-> <<>>,
            erasedFresh |-> FALSE]
NoAttach == [pressed |-> FALSE, shown |-> <<"", "">>, attached |-> <<"", "">>]
SweepIdle == lastActivity = <<>> /\ sweep = NoSweep
SelectIdle ==
    sessionSelections = <<>> /\ keyboards = {} /\ lastAttach = NoAttach

NoUpdate == [userId |-> 0, chat |-> "", outcome |-> "none"]
BotIdle ==
    /\ now = 0 /\ userMessageCounts = <<>> /\ reached = {}
    /\ passed = [u \in Users |-> <<>>]
    /\ lastUpdate = NoUpdate /\ updatesLeft = 0

StreamIdle ==
    /\ streamPc = "off" /\ aborted = FALSE /\ buffer = "" /\ lines = <<>>
    /\ socket = "" /\ cbCalls = <<>> /\ wire = "" /\ closedFrames = <<>>
    /\ linesLeft = 0 /\ callsAfterAbort = 0 /\ carried = 0
    /\ splitDelivered = FALSE

InitLaunch ==
    /\ BotIdle /\ SweepIdle /\ SelectIdle
    /\ clientInstances = (ConfigId :> [port |-> ConfigPort,
                                       projectPath |-> PathOptFoo])
    /\ spawnedProcesses = <<>>
    /\ procs \in SUBSET ExternalCandidates
    /\ subscribed = {}
    /\ calls = [c \in CallIds |-> IdleCall]
    /\ nextPid = 2
    /\ mainPc = "polling"
    /\ StreamIdle
    /\ RouteIdle
    /\ CallIdle

NextLaunch ==
    \/ \E c \in CallIds, path \in LaunchPaths : LaunchStart(c, path)
    \/ \E c \in CallIds : LaunchFind(c)
    \/ \E c \in CallIds : LaunchSpawn(c)
    \/ \E c \in CallIds : LaunchProbe(c)
    \/ \E path \in LaunchPaths : OpenProjectAttach(path)
    \/ \E p \in procs : ProcHealthy(p)
    \/ \E p \in procs : ProcExit(p)
    \/ MainSubscribe
    \/ Shutdown

SpecLaunch ==
    InitLaunch
    /\ [][NextLaunch /\ UNCHANGED <<streamVars, routeVars, callVars, botVars,
                      sweepVars, selectVars>>]_vars

(***************************************************************************)
(* Claims about the launcher and the registry.                             *)
(***************************************************************************)
InvalidPath(p) == validateProjectPath(p) # ""

\* C1: two launchOnProject calls for one working directory, the second
\* started after the first returned (whatever the first returned) with no
\* registration in between, yield the same instance id and together spawn
\* at most one backend process.
C1_LaunchIdempotent ==
    \A c1 \in CallIds, c2 \in CallIds :
        ( /\ calls[c1].pc = "done" /\ calls[c2].pc = "done"
          /\ c1 \in calls[c2].after
          /\ calls[c2].regAtStart = calls[c1].regAtEnd
          /\ calls[c1].path = calls[c2].path )
        => /\ calls[c1].instanceId = calls[c2].instanceId
           /\ calls[c1].spawned + calls[c2].spawned <= 1

\* C4: every instance in the registry has an Event Stream Client started
\* for it once the operation that registered it has completed (the
\* configured instance once main has run its subscription loop).
C4_RegisteredIsSubscribed ==
    \A id \in DOMAIN clientInstances :
        (id # ConfigId \/ mainPc = "running") => id \in subscribed

\* C35: the instance id returned by a successful launchOnProject(path)
\* names a registered client whose working directory is that path, also
\* when a registered instance of another directory has the same leaf name.
C35_ReturnedIdTargetsPath ==
    \A c \in CallIds :
        (calls[c].pc = "done" /\ calls[c].instanceId # ""
            /\ calls[c].instanceId \in DOMAIN clientInstances)
        => normalize(clientInstances[calls[c].instanceId].projectPath)
              = normalize(calls[c].path)

\* C10: a launchOnProject call whose working directory fails validation
\* returns the validation error with its reason, spawns no process and
\* adds nothing to the registry, whatever the registry and the process
\* table hold.
C10_InvalidPathRejected ==
    \A c \in CallIds :
        (calls[c].pc = "done" /\ InvalidPath(calls[c].path))
        => /\ calls[c].error =
                "Cannot auto-start OpenCode: " \o validateProjectPath(calls[c].path)
           /\ calls[c].instanceId = ""
           /\ calls[c].spawned = 0
           /\ ~calls[c].registered

(***************************************************************************)
(* Discovery and port search: launchOnProject on a host where backends     *)
(* started by hand already listen on ports of the searched range.          *)
(***************************************************************************)
MaxSearches == 1     \* launchOnProject invocations on such a host

\* a backend started by hand in /srv/work/foo on each port of the range,
\* answering ok or with an error status
HostListeners ==
    { [pid |-> 2 + (q - BasePort), cwd |-> PathSrvFoo, port |-> q,
       state |-> st, ours |-> FALSE, id |-> ""]
      : q \in Ports, st \in {"healthy", "refusing"} }
OnePerPort(ps) == \A p, q \in ps : p.port = q.port => p = q

InitDiscover ==
    /\ BotIdle /\ SweepIdle /\ SelectIdle
    /\ clientInstances = (ConfigId :> [port |-> ConfigPort,
                                       projectPath |-> PathOptFoo])
    /\ spawnedProcesses = <<>>
    /\ procs \in { ps \in SUBSET (ExternalCandidates \cup HostListeners) :
                       OnePerPort(ps) }
    /\ subscribed = {ConfigId}
    /\ calls = [c \in CallIds |-> IdleCall]
    /\ nextPid = 2 + PortAttempts
    /\ mainPc = "running"
    /\ StreamIdle /\ RouteIdle /\ CallIdle

NextDiscover ==
    \/ \E c \in 1..MaxSearches, path \in LaunchPaths : LaunchStart(c, path)
    \/ \E c \in CallIds : LaunchFind(c)
    \/ \E c \in CallIds : LaunchSpawn(c)
    \/ \E c \in CallIds : LaunchProbe(c)
    \/ \E p \in procs : ProcHealthy(p)
    \/ \E p \in procs : ProcExit(p)

SpecDiscover ==
    InitDiscover
    /\ [][NextDiscover /\ UNCHANGED <<streamVars, routeVars, callVars, botVars,
                      sweepVars, selectVars>>]_vars

\* C12: a port returned by findAvailablePort is one on which no listener
\* answered the probe, with whatever HTTP status.
C12_ReturnedPortIsSilent ==
    \A c \in CallIds :
        (calls[c].searched /\ calls[c].port # 0)
        => calls[c].port \notin calls[c].openPorts

C14_FoundIffHealthyMatch ==
    \A c \in CallIds :
        calls[c].looked => ((calls[c].foundId # "") <=> calls[c].healthyMatch)

\* a lookup returned null although a process ran in the directory
C14_Witness ==
    \E c \in CallIds :
        /\ calls[c].looked /\ calls[c].sawMatch
        /\ ~calls[c].healthyMatch /\ calls[c].foundId = ""

\* the backend behind a port answers /session with an ok status
HealthyAt(port) == \E p \in procs : p.port = port /\ p.state = "healthy"

\* a call that launched a new instance has returned its id with the client
\* registered and the event stream started
LaunchedIsServed ==
    \A c \in CallIds :
        (calls[c].pc = "done" /\ calls[c].childPid # 0 /\ calls[c].instanceId # "")
        => /\ calls[c].instanceId = calls[c].id
           /\ calls[c].id \in calls[c].regAtEnd
           /\ calls[c].id \in subscribed

\* the steps of a launch: the spawn registers nothing; a probe registers,
\* subscribes and returns exactly when the backend of the port is healthy
LaunchStepsInOrder ==
    \A c \in CallIds :
        /\ (calls[c].pc = "port" /\ calls'[c].pc = "wait")
              => /\ calls'[c].childPid # 0
                 /\ clientInstances' = clientInstances
                 /\ subscribed' = subscribed
        /\ (calls[c].pc = "wait" /\ calls'[c] # calls[c])
              => IF HealthyAt(calls[c].port)
                 THEN /\ calls[c].id \in DOMAIN clientInstances'
                      /\ clientInstances'[calls[c].id].port = calls[c].port
                      /\ calls[c].id \in subscribed'
                      /\ calls'[c].pc = "done"
                      /\ calls'[c].instanceId = calls[c].id
                 ELSE /\ clientInstances' = clientInstances
                      /\ subscribed' = subscribed
                      /\ calls'[c].instanceId = ""
        /\ (calls[c].pc # "done" /\ calls'[c].pc = "done"
              /\ calls'[c].childPid # 0 /\ calls'[c].instanceId # "")
              => calls[c].pc = "wait"

\* (initializeOpenCodeClientsWithAutoStart, client.ts 417-444, has no caller
\* in the program: launchOnProject is the only launch that runs.)
\* C34: in a successful launch of a new instance the process is spawned,
\* then a health probe of its port succeeds, then the client is registered
\* and the event stream is started, and then launchOnProject returns; the
\* instance is not registered before a probe has succeeded.
C34_LaunchStepsOrdered == []LaunchedIsServed /\ [][LaunchStepsInOrder]_vars

\* a call has returned the id of the instance it spawned, after a probe
\* that failed and one that succeeded
C34_Witness ==
    \E c \in CallIds :
        /\ calls[c].pc = "done" /\ calls[c].childPid # 0
        /\ calls[c].instanceId = calls[c].id /\ calls[c].tries > 0
        /\ calls[c].streamed

\* C15: a launchOnProject call that ran out of health probes returns the
\* timeout error, has added nothing to the registry and started no event
\* stream, and the handle of the child it spawned stays in spawnedProcesses
\* for as long as that child runs.
C15_TimeoutLeavesChildTracked ==
    \A c \in CallIds :
        (calls[c].pc = "done" /\ calls[c].error = LaunchTimeout)
        => /\ calls[c].instanceId = ""
           /\ ~calls[c].registered /\ calls[c].id \notin calls[c].regAtEnd
           /\ ~calls[c].streamed
           /\ \A p \in procs :
                 p.pid = calls[c].childPid
                 => /\ calls[c].id \in DOMAIN spawnedProcesses
                    /\ spawnedProcesses[calls[c].id] = p.pid

\* C36: while the control process runs, every child the launcher spawned
\* that is still running has its handle in spawnedProcesses under its
\* instance id, also after another child was spawned for the same id or a
\* child of the same id has exited.
C36_RunningChildTracked ==
    mainPc # "exited" =>
        \A p \in procs :
            p.ours => /\ p.id \in DOMAIN spawnedProcesses
                      /\ spawnedProcesses[p.id] = p.pid

\* C16: once the control process has exited on SIGINT or SIGTERM, every
\* child the launcher spawned that is still running has been sent a
\* termination signal.
C16_ShutdownSignalsChildren ==
    mainPc = "exited" => \A p \in procs : p.ours => p.state = "signalled"

\* launchOnProject called again for the same directory while an earlier
\* call is still awaiting: the function takes no lock and reads the
\* registry only at its entry (367), so nothing in it delays the second call
InitOverlap ==
    /\ BotIdle /\ SweepIdle /\ SelectIdle
    /\ clientInstances = (ConfigId :> [port |-> ConfigPort,
                                       projectPath |-> PathOptFoo])
    /\ spawnedProcesses = <<>> /\ procs = {} /\ subscribed = {ConfigId}
    /\ calls = [c \in CallIds |-> IdleCall] /\ nextPid = 2
    /\ mainPc = "running"
    /\ StreamIdle /\ RouteIdle /\ CallIdle

NextOverlap ==
    \/ \E c \in CallIds : LaunchEnter(c, PathOptFoo)
    \/ \E c \in CallIds : LaunchFind(c)
    \/ \E c \in CallIds : LaunchSpawn(c)
    \/ \E c \in CallIds : LaunchProbe(c)
    \/ \E p \in procs : ProcHealthy(p)
    \/ \E p \in procs : ProcExit(p)

SpecOverlap ==
    InitOverlap
    /\ [][NextOverlap /\ UNCHANGED <<streamVars, routeVars, callVars, botVars,
                      sweepVars, selectVars>>]_vars

\* neither call had returned when the other one started
Overlapping(c, d) ==
    /\ calls[c].pc # "idle" /\ calls[d].pc # "idle"
    /\ c \notin calls[d].after /\ d \notin calls[c].after

\* C28: for every instance id at most one event stream was started, and two
\* overlapping launchOnProject calls for the same working directory do not
\* both spawn a process.
C28_OneStreamPerInstance ==
    \A c, d \in CallIds :
        (c # d /\ calls[c].id # "" /\ calls[c].id = calls[d].id) =>
            /\ ~(calls[c].streamed /\ calls[d].streamed)
            /\ Overlapping(c, d) => ~(calls[c].childPid # 0 /\ calls[d].childPid # 0)

\* config.opencode.instances (config/index.ts): the configured instances
ConfiguredInstances == {ConfigId}

\* C23: while bot.start() is pending, i.e. while the bot is polling for
\* updates, the event stream of every configured instance has been
\* subscribed to.
C23_SubscribedBeforePolling ==
    mainPc = "polling" => ConfiguredInstances \subseteq subscribed

(***************************************************************************)
(* Event Stream Client: subscribeToEvents.connect (client.ts 628-685).      *)
(* Text is kept as strings; the backend sends whole lines, the client      *)
(* reads chunks of any size.                                               *)
(***************************************************************************)
\* String.prototype.split("\n")
RECURSIVE SplitAcc(_, _, _)
SplitAcc(s, cur, acc) ==
    IF s = "" THEN Append(acc, cur)
    ELSE IF Head(s) = "\n" THEN SplitAcc(Tail(s), "", Append(acc, cur))
    ELSE SplitAcc(Tail(s), cur \o Head(s), acc)
split(s) == SplitAcc(s, "", <<>>)

\* a read loop that forgets the unfinished line between two chunks
dropCarry(pieces) == ""

\* lines.pop() || "": the piece after the last newline is carried over
carry(pieces) == pieces[Len(pieces)]
\* what is left in `lines` after the pop
popped(pieces) == SubSeq(pieces, 1, Len(pieces) - 1)

startsWithData(line) == Len(line) >= 6 /\ SubSeq(line, 1, 6) = "data: "
slice6(line) == SubSeq(line, 7, Len(line))

\* JSON.parse on the bodies the backend sends; anything else throws
NoJson == [ok |-> FALSE, type |-> "", payloadType |-> "", hasPayload |-> FALSE]
JSONparse(body) ==
    IF body = "{\"type\":\"a\"}"
    THEN [ok |-> TRUE, type |-> "a", payloadType |-> "", hasPayload |-> FALSE]
    ELSE IF body = "{\"payload\":{\"type\":\"b\"}}"
    THEN [ok |-> TRUE, type |-> "", payloadType |-> "b", hasPayload |-> TRUE]
    ELSE IF body = "{}"
    THEN [ok |-> TRUE, type |-> "", payloadType |-> "", hasPayload |-> FALSE]
    ELSE NoJson

\* raw.type alone, without the unwrapping of an envelope
rawType(raw) == raw.type

\* raw.payload ?? raw, reduced to the event's type
eventType(raw) == IF raw.hasPayload THEN raw.payloadType ELSE raw.type

\* lines 656-664: the line makes the callback run
IsTypedFrame(line) ==
    /\ startsWithData(line)
    /\ JSONparse(slice6(line)).ok
    /\ eventType(JSONparse(slice6(line))) # ""
EventOf(line) == [type |-> eventType(JSONparse(slice6(line)))]

\* what a backend writes at once: an SSE event (a data line and the blank
\* line ending it) or a broken line
WireLines == { "data: {\"type\":\"a\"}\n\n",
               "data: {\"payload\":{\"type\":\"b\"}}\n\n",
               "data: {}\n\n",
               "data: {\n" }

\* the backend writes one more line on the open connection (what it writes
\* while a chunk is being processed is seen by the next read all the same)
ServerSend(l) ==
    /\ streamPc = "read"
    /\ linesLeft > 0
    /\ socket' = socket \o l
    /\ linesLeft' = linesLeft - 1
    /\ UNCHANGED <<streamPc, aborted, buffer, lines, cbCalls, wire,
                   closedFrames, callsAfterAbort, carried, splitDelivered>>

\* the typed frames among the complete lines of a text, in wire order
RECURSIVE TypedEvents(_)
TypedEvents(ls) ==
    IF ls = <<>> THEN <<>>
    ELSE (IF IsTypedFrame(Head(ls)) THEN <<EventOf(Head(ls))>> ELSE <<>>)
         \o TypedEvents(Tail(ls))
FramesOf(text) == TypedEvents(popped(split(text)))

\* the connection is over: its frames join those of the closed connections
CloseConnection ==
    /\ closedFrames' = closedFrames \o FramesOf(wire)
    /\ wire' = ""
    /\ socket' = ""
    /\ buffer' = ""

\* line 636: fetch resolves with a response that has a body; 643-647
FetchOk ==
    /\ streamPc = "fetch" /\ ~aborted
    /\ streamPc' = "read"
    /\ buffer' = "" /\ socket' = "" /\ wire' = ""
    /\ UNCHANGED <<aborted, lines, cbCalls, closedFrames, linesLeft,
                   callsAfterAbort, carried, splitDelivered>>

\* line 641: the response carries no body, connect() returns
FetchNoBody ==
    /\ streamPc = "fetch" /\ ~aborted
    /\ streamPc' = "ended"
    /\ UNCHANGED <<aborted, buffer, lines, socket, cbCalls, wire, closedFrames,
                   linesLeft, callsAfterAbort, carried, splitDelivered>>

\* lines 636, 667-675: fetch rejects, the catch logs, the delay starts
FetchError ==
    /\ streamPc = "fetch" /\ ~aborted
    /\ streamPc' = "delay"
    /\ UNCHANGED <<aborted, buffer, lines, socket, cbCalls, wire, closedFrames,
                   linesLeft, callsAfterAbort, carried, splitDelivered>>

\* lines 636, 667-673: fetch on an aborted signal rejects with AbortError
FetchAborted ==
    /\ streamPc = "fetch" /\ aborted
    /\ streamPc' = "ended"
    /\ UNCHANGED <<aborted, buffer, lines, socket, cbCalls, wire, closedFrames,
                   linesLeft, callsAfterAbort, carried, splitDelivered>>

\* lines 648-653: read() yields the next k characters
ReadChunk(k) ==
    /\ streamPc = "read" /\ ~aborted
    /\ k \in 1..Len(socket)
    /\ LET chunk == SubSeq(socket, 1, k)
           pieces == split(buffer \o chunk)
       IN  /\ socket' = SubSeq(socket, k + 1, Len(socket))
           /\ wire' = wire \o chunk
           /\ buffer' = carry(pieces)
           /\ lines' = popped(pieces)
           /\ carried' = IF popped(pieces) = <<>> THEN 0 ELSE Len(buffer)
           /\ streamPc' = IF popped(pieces) = <<>> THEN "read" ELSE "process"
    /\ UNCHANGED <<aborted, cbCalls, closedFrames, linesLeft, callsAfterAbort,
                   splitDelivered>>

\* lines 648-649, 673-675: read() reports the end of the body
ReadDone ==
    /\ streamPc = "read" /\ ~aborted
    /\ socket = ""
    /\ CloseConnection
    /\ streamPc' = "delay"
    /\ UNCHANGED <<aborted, lines, cbCalls, linesLeft, callsAfterAbort,
                   carried, splitDelivered>>

\* lines 648, 667-675: read() rejects (connection reset)
ReadError ==
    /\ streamPc = "read" /\ ~aborted
    /\ CloseConnection
    /\ streamPc' = "delay"
    /\ UNCHANGED <<aborted, lines, cbCalls, linesLeft, callsAfterAbort,
                   carried, splitDelivered>>

\* lines 648, 667-673: the pending read() rejects with AbortError
ReadAborted ==
    /\ streamPc = "read" /\ aborted
    /\ CloseConnection
    /\ streamPc' = "ended"
    /\ UNCHANGED <<aborted, lines, cbCalls, linesLeft, callsAfterAbort,
                   carried, splitDelivered>>

\* lines 655-665, then 647 and 673: one iteration of the for loop; the
\* callback it runs may itself call the unsubscribe function (unsub)
ProcessLine(unsub) ==
    /\ streamPc = "process"
    /\ LET line == Head(lines)
           typed == IsTypedFrame(line)
           nowAborted == aborted \/ (typed /\ unsub)
       IN  /\ typed \/ ~unsub
           /\ cbCalls' = IF typed THEN Append(cbCalls, EventOf(line)) ELSE cbCalls
           /\ callsAfterAbort' =
                 IF typed /\ aborted THEN callsAfterAbort + 1 ELSE callsAfterAbort
           /\ splitDelivered' = (splitDelivered \/ (typed /\ carried > 0))
           /\ aborted' = nowAborted
           /\ lines' = Tail(lines)
           /\ streamPc' = IF Tail(lines) # <<>> THEN "process"
                          ELSE IF nowAborted THEN "ended" ELSE "read"
    /\ carried' = 0
    /\ UNCHANGED <<buffer, socket, wire, closedFrames, linesLeft>>

\* lines 675-676: the 2 s timer fires and connect() runs again
DelayElapsed ==
    /\ streamPc = "delay"
    /\ streamPc' = "fetch"
    /\ UNCHANGED <<aborted, buffer, lines, socket, cbCalls, wire, closedFrames,
                   linesLeft, callsAfterAbort, carried, splitDelivered>>

\* lines 682-684: the returned function is called between two steps
Unsubscribe ==
    /\ streamPc \in {"fetch", "read", "delay", "ended"}
    /\ ~aborted
    /\ aborted' = TRUE
    /\ UNCHANGED <<streamPc, buffer, lines, socket, cbCalls, wire, closedFrames,
                   linesLeft, callsAfterAbort, carried, splitDelivered>>

LaunchIdle ==
    /\ clientInstances = (ConfigId :> [port |-> ConfigPort,
                                       projectPath |-> PathOptFoo])
    /\ spawnedProcesses = <<>> /\ procs = {} /\ subscribed = {ConfigId}
    /\ calls = [c \in CallIds |-> IdleCall] /\ nextPid = 2
    /\ mainPc = "running"

\* subscribeToEvents has been called: connect() is awaiting its fetch
InitStream ==
    /\ BotIdle /\ SweepIdle /\ SelectIdle
    /\ LaunchIdle
    /\ RouteIdle
    /\ CallIdle
    /\ streamPc = "fetch" /\ aborted = FALSE /\ buffer = "" /\ lines = <<>>
    /\ socket = "" /\ cbCalls = <<>> /\ wire = "" /\ closedFrames = <<>>
    /\ linesLeft = MaxLines /\ callsAfterAbort = 0 /\ carried = 0
    /\ splitDelivered = FALSE

NextStream ==
    \/ \E l \in WireLines : ServerSend(l)
    \/ FetchOk
    \/ FetchNoBody
    \/ FetchError
    \/ FetchAborted
    \/ \E k \in 1..Len(socket) : ReadChunk(k)
    \/ ReadDone
    \/ ReadError
    \/ ReadAborted
    \/ \E unsub \in BOOLEAN : ProcessLine(unsub)
    \/ DelayElapsed
    \/ Unsubscribe

SpecStream ==
    InitStream
    /\ [][NextStream /\ UNCHANGED <<launchVars, routeVars, callVars, botVars,
                      sweepVars, selectVars>>]_vars

(***************************************************************************)
(* Claims about the Event Stream Client.                                   *)
(***************************************************************************)
\* C2: a subscription that has not been cancelled never stops connecting:
\* whenever connect() has returned without a new attempt in progress or
\* scheduled, the subscription was cancelled.
C2_StoppedOnlyWhenCancelled == streamPc = "ended" => aborted

\* C3: once the unsubscribe function has been called, the callback is not
\* invoked again.
C3_NoCallbackAfterUnsubscribe == callsAfterAbort = 0

\* C9: the callback invocations, followed by the frames of the lines still
\* to be processed, are the typed frames read on the wire, in wire order,
\* however the reads cut the text into chunks.
C9_CallbackOrderIsWireOrder ==
    cbCalls \o TypedEvents(IF streamPc = "process" THEN lines ELSE <<>>)
        = closedFrames \o FramesOf(wire)

\* two different frames delivered, one of them read in two chunks
C9_Witness ==
    /\ streamPc = "read"
    /\ splitDelivered
    /\ Len(cbCalls) = 2 /\ cbCalls[1] # cbCalls[2]

\* the type carried by a line of the wire as the backend wrote it: that of
\* the envelope's payload, else that of the value itself; "" when the line
\* has no data prefix, no JSON value or no type
TypeOnWire(line) ==
    IF line = "data: {\"type\":\"a\"}" THEN "a"
    ELSE IF line = "data: {\"payload\":{\"type\":\"b\"}}" THEN "b"
    ELSE ""
RECURSIVE TypesOnWire(_)
TypesOnWire(ls) ==
    IF ls = <<>> THEN <<>>
    ELSE (IF TypeOnWire(Head(ls)) # "" THEN <<[type |-> TypeOnWire(Head(ls))]>>
          ELSE <<>>) \o TypesOnWire(Tail(ls))
\* the newline-terminated lines of a text
CompleteLines(text) == SubSeq(split(text), 1, Len(split(text)) - 1)

\* the callback runs of the open connection and those its pending lines
\* still cause are those of the typed complete lines on its wire
TypedLinesCalled ==
    SubSeq(cbCalls, Len(closedFrames) + 1, Len(cbCalls))
       \o TypesOnWire(IF streamPc = "process" THEN lines ELSE <<>>)
        = TypesOnWire(CompleteLines(wire))

\* processing a line that carries no type calls nothing, keeps the
\* connection and goes on with the next line
UntypedLineSkipped ==
    (streamPc = "process" /\ TypeOnWire(Head(lines)) = "") =>
        /\ cbCalls' = cbCalls
        /\ lines' = Tail(lines)
        /\ wire' = wire /\ socket' = socket /\ buffer' = buffer
        /\ streamPc' = IF lines' # <<>> THEN "process"
                       ELSE IF aborted THEN "ended" ELSE "read"

\* C33: the callback is invoked exactly for the complete lines that start
\* with the data prefix and whose JSON value, unwrapped to its payload when
\* it is an envelope, has a type; a line with malformed JSON, without the
\* prefix or without a type is discarded, the connection stays open and the
\* lines after it are processed.
C33_TypedLinesOnly == []TypedLinesCalled /\ [][UntypedLineSkipped]_vars

\* an enveloped frame was delivered after a malformed line on the same wire
C33_Witness ==
    /\ streamPc = "read"
    /\ wire = "data: {\n" \o "data: {\"payload\":{\"type\":\"b\"}}\n\n"
    /\ cbCalls = <<[type |-> "b"]>>

(***************************************************************************)
(* Persisted user state: SessionManager (session-manager.ts) and the       *)
(* callback handlers of commands.ts.  null is "".                          *)
(***************************************************************************)
SessionInfo(id, instanceId) == [id |-> id, instanceId |-> instanceId]

NewUserState(userId, currentInstanceId) ==
    [userId |-> userId, currentSessionId |-> "",
     currentInstanceId |-> currentInstanceId, sessions |-> <<>>]

\* storage.set(`user:${userId}`, state)
storageSet(st, userId, state) ==
    (userId :> state) @@ [u \in DOMAIN st \ {userId} |-> st[u]]

\* storage.delete(key)
storageDelete(st, userId) == [u \in DOMAIN st \ {userId} |-> st[u]]

\* commands.ts ensureUserState: the stored state, or a new one on the
\* default instance
ensureUserState(userId) ==
    IF userId \in DOMAIN store THEN store[userId]
    ELSE NewUserState(userId, ConfigId)

\* migrateOldSessions: a state without current instance takes the one of
\* its first session (every session of the model has an instanceId)
migrateOldSessions(state) ==
    IF state.currentInstanceId = "" /\ Len(state.sessions) > 0
    THEN [state EXCEPT !.currentInstanceId = state.sessions[1].instanceId]
    ELSE state

\* SessionManager.getOrCreateUserState on a given content of the storage
getOrCreateIn(st, userId) ==
    IF userId \in DOMAIN st THEN migrateOldSessions(st[userId])
    ELSE NewUserState(userId, "")
getOrCreateUserState(userId) == getOrCreateIn(store, userId)

\* Array.prototype.findIndex on s.id, 0 when there is none
findIndexById(sessions, sessionId) ==
    IF \E i \in 1..Len(sessions) : sessions[i].id = sessionId
    THEN CHOOSE i \in 1..Len(sessions) :
            /\ sessions[i].id = sessionId
            /\ \A j \in 1..(i - 1) : sessions[j].id # sessionId
    ELSE 0

\* Array.prototype.splice(index, 1)
splice(sessions, index) ==
    SubSeq(sessions, 1, index - 1) \o SubSeq(sessions, index + 1, Len(sessions))

\* SessionManager.createSession: the backend of the target instance makes
\* a session with an id new on that instance
CreateSession(userId, instanceId, newId) ==
    /\ tasks = <<>>
    /\ LET state == getOrCreateUserState(userId)
           target == IF instanceId # "" THEN instanceId
                     ELSE IF state.currentInstanceId # ""
                          THEN state.currentInstanceId ELSE ConfigId
       IN  /\ <<target, newId>> \notin usedSessions
           /\ backendSessions' = backendSessions \cup {<<target, newId>>}
           /\ usedSessions' = usedSessions \cup {<<target, newId>>}
           /\ store' = storageSet(store, userId,
                 [state EXCEPT !.sessions = Append(@, SessionInfo(newId, target)),
                               !.currentSessionId = newId,
                               !.currentInstanceId = target])
    /\ UNCHANGED <<messageBuffers, deliveries, tasks, eventsLeft, fed, phase,
                   lastRoute>>

\* client.getSession: the session, or null when the backend has none
getSession(instanceId, sessionId) == <<instanceId, sessionId>> \in backendSessions

\* commands.ts attach_session: the user picks a session from the list the
\* backend of an instance gave when the project was opened; the session
\* may have been deleted since
AttachSession(userId, instanceId, sessionId) ==
    /\ tasks = <<>>
    /\ <<instanceId, sessionId>> \in usedSessions
    /\ LET state == ensureUserState(userId)
           known == findIndexById(state.sessions, sessionId) # 0
           pushed == IF known \/ ~getSession(instanceId, sessionId)
                     THEN state.sessions
                     ELSE Append(state.sessions, SessionInfo(sessionId, instanceId))
       IN  /\ store' = storageSet(store, userId,
                 [state EXCEPT !.sessions = pushed,
                               !.currentSessionId = sessionId,
                               !.currentInstanceId = instanceId])
           /\ store' # store
    /\ UNCHANGED <<backendSessions, usedSessions, messageBuffers, deliveries, tasks,
                   eventsLeft, fed, phase, lastRoute>>

\* commands.ts switch: callback
SwitchSession(userId, sessionId) ==
    /\ tasks = <<>>
    /\ userId \in DOMAIN store
    /\ LET state == store[userId]
           i == findIndexById(state.sessions, sessionId)
       IN  /\ i # 0
           /\ store' = storageSet(store, userId,
                 [state EXCEPT !.currentSessionId = sessionId,
                               !.currentInstanceId = state.sessions[i].instanceId])
    /\ UNCHANGED <<backendSessions, usedSessions, messageBuffers, deliveries, tasks,
                   eventsLeft, fed, phase, lastRoute>>

\* SessionManager.deleteSession, the backend deleting the session
DeleteSession(userId, sessionId) ==
    /\ tasks = <<>>
    /\ LET state == getOrCreateUserState(userId)
           i == findIndexById(state.sessions, sessionId)
           rest == splice(state.sessions, i)
       IN  IF i = 0
           THEN \* not found: only the state getOrCreateUserState stored stays
                /\ store' = storageSet(store, userId, state)
                /\ store' # store
                /\ UNCHANGED backendSessions
           ELSE
           /\ backendSessions' =
                 backendSessions \ {<<state.sessions[i].instanceId, sessionId>>}
           /\ store' = storageSet(store, userId,
                 IF state.currentSessionId = sessionId
                 THEN [state EXCEPT
                         !.sessions = rest,
                         !.currentSessionId =
                             IF Len(rest) > 0 THEN rest[1].id ELSE "",
                         !.currentInstanceId =
                             IF Len(rest) > 0 THEN rest[1].instanceId ELSE ""]
                 ELSE [state EXCEPT !.sessions = rest])
    /\ UNCHANGED <<usedSessions, messageBuffers, deliveries, tasks, eventsLeft,
                   fed, phase, lastRoute>>

\* SessionManager.setCurrentInstance (the instance: callback)
SetCurrentInstance(userId, instanceId) ==
    /\ tasks = <<>>
    /\ store' = storageSet(store, userId,
          [getOrCreateUserState(userId) EXCEPT !.currentInstanceId = instanceId])
    /\ store' # store
    /\ UNCHANGED <<backendSessions, usedSessions, messageBuffers, deliveries, tasks,
                   eventsLeft, fed, phase, lastRoute>>

\* commands.ts open_project 366-368, 375-377, 390-392: the project's
\* instance becomes the user's current instance
OpenProject(userId, instanceId) ==
    /\ tasks = <<>>
    /\ store' = storageSet(store, userId,
          [ensureUserState(userId) EXCEPT !.currentInstanceId = instanceId])
    /\ store' # store
    /\ UNCHANGED <<backendSessions, usedSessions, messageBuffers, deliveries, tasks,
                   eventsLeft, fed, phase, lastRoute>>

\* SessionManager.cleanupOldSessions for a user whose state has expired
CleanupUser(userId) ==
    /\ tasks = <<>>
    /\ userId \in DOMAIN store
    /\ backendSessions' = backendSessions \
          { <<store[userId].sessions[i].instanceId, store[userId].sessions[i].id>>
            : i \in 1..Len(store[userId].sessions) }
    /\ store' = storageDelete(store, userId)
    /\ UNCHANGED <<usedSessions, messageBuffers, deliveries, tasks, eventsLeft,
                   fed, phase, lastRoute>>

(***************************************************************************)
(* Router and delta assembler: MessageService (part_002).                  *)
(***************************************************************************)
Deltas == {"", "a", "bc", "defgh"}

\* the events of the model: text parts, completions, a status event and an
\* event without session id
PartEvent(i, sid, d) ==
    [type |-> "message.part.updated", instanceId |-> i, sessionId |-> sid,
     partType |-> "text", delta |-> d, role |-> "", finish |-> FALSE]
ReasoningEvent(i, sid, d) ==
    [type |-> "message.part.updated", instanceId |-> i, sessionId |-> sid,
     partType |-> "reasoning", delta |-> d, role |-> "", finish |-> FALSE]
CompleteEvent(i, sid, role, finish) ==
    [type |-> "message.updated", instanceId |-> i, sessionId |-> sid,
     partType |-> "", delta |-> "", role |-> role, finish |-> finish]
OtherEvent(i, sid) ==
    [type |-> "session.status", instanceId |-> i, sessionId |-> sid,
     partType |-> "", delta |-> "", role |-> "", finish |-> FALSE]
RouteEvents ==
    { PartEvent(i, sid, d) : i \in Instances, sid \in SessionIds, d \in Deltas }
    \cup { ReasoningEvent(i, sid, "a") : i \in Instances, sid \in SessionIds }
    \cup { CompleteEvent(i, sid, r[1], r[2]) :
             i \in Instances, sid \in SessionIds,
             r \in {<<"assistant", TRUE>>, <<"user", TRUE>>, <<"assistant", FALSE>>} }
    \cup { OtherEvent(i, sid) : i \in Instances, sid \in SessionIds \cup {""} }

\* extractSessionIdFromEvent: "" when the event carries none
extractSessionIdFromEvent(ev) == ev.sessionId

\* a lookup that compares the session id only
sessionMatchesIdOnly(s, sessionId, instanceId) == s.id = sessionId

\* state.sessions.find(s => s.id === sessionId && s.instanceId === instanceId)
sessionMatches(s, sessionId, instanceId) ==
    s.id = sessionId /\ s.instanceId = instanceId

\* findUserBySession over the keys in the order storage.keys returned them;
\* 0 when no state matches
RECURSIVE findUserBySession(_, _, _)
findUserBySession(allKeys, sessionId, instanceId) ==
    IF allKeys = <<>> THEN 0
    ELSE LET state == store[Head(allKeys)]
         IN  IF \E i \in 1..Len(state.sessions) :
                    sessionMatches(state.sessions[i], sessionId, instanceId)
             THEN state.userId
             ELSE findUserBySession(Tail(allKeys), sessionId, instanceId)

\* storage.keys("user:*"): the stored keys, in an order the storage picks
KeyOrders ==
    { o \in [1..Cardinality(DOMAIN store) -> DOMAIN store] :
        \A a, b \in DOMAIN o : a # b => o[a] # o[b] }

\* a completion handler that leaves the buffer in place
bufferKeep(bufs, key) == bufs

\* this.messageBuffers.get(bufferKey) || ""
bufferGet(key) == IF key \in DOMAIN messageBuffers THEN messageBuffers[key] ELSE ""
bufferSet(bufs, key, text) ==
    (key :> text) @@ [k \in DOMAIN bufs \ {key} |-> bufs[k]]
bufferDelete(bufs, key) == [k \in DOMAIN bufs \ {key} |-> bufs[k]]

Delivery(userId, text, key) == [userId |-> userId, text |-> text, key |-> key]

RECURSIVE Concat(_)
Concat(texts) == IF texts = <<>> THEN "" ELSE Head(texts) \o Concat(Tail(texts))

Task(ev) == [ev |-> ev, pc |-> "lookup", userId |-> 0]
RemoveAt(seq, i) == SubSeq(seq, 1, i - 1) \o SubSeq(seq, i + 1, Len(seq))

\* a callback that hands an event over only when no handler is in flight,
\* as a read loop waiting for the callback's promise would
CallbackAwaited(ev) ==
    /\ tasks = <<>>
    /\ eventsLeft > 0
    /\ eventsLeft' = eventsLeft - 1
    /\ tasks' = IF extractSessionIdFromEvent(ev) = "" THEN tasks
                ELSE Append(tasks, Task(ev))
    /\ UNCHANGED <<store, backendSessions, usedSessions, messageBuffers,
                   deliveries, fed, phase, lastRoute>>

\* index.ts 116-117 with routeEventToUser 113-121: the stream callback
\* starts routeEventToUser and does not wait for it; the task runs up to
\* its first storage read
Callback(ev) ==
    /\ eventsLeft > 0
    /\ eventsLeft' = eventsLeft - 1
    /\ tasks' = IF extractSessionIdFromEvent(ev) = "" THEN tasks
                ELSE Append(tasks, Task(ev))
    /\ UNCHANGED <<store, backendSessions, usedSessions, messageBuffers,
                   deliveries, fed, phase, lastRoute>>

\* the same when nothing else is in flight: events handled in sequence
CallbackInTurn(ev) == tasks = <<>> /\ Callback(ev)

\* the text a part event appends: part.type === "text" && delta
IsTextPart(ev) == ev.type = "message.part.updated" /\ ev.partType = "text"

\* a completion test that does not look at the role
IsCompletionAnyRole(ev) == ev.type = "message.updated" /\ ev.finish

IsCompletion(ev) ==
    ev.type = "message.updated" /\ ev.finish /\ ev.role = "assistant"

\* a threshold test that lets a buffer of exactly messageChunkSize wait
reachesThresholdStrict(text) == Len(text) > messageChunkSize

\* handleMessagePart 90: buffer.length >= config.bot.messageChunkSize
reachesThreshold(text) == Len(text) >= messageChunkSize

\* the events that neither append nor flush: a part that is not text or
\* has no delta, a message update of the user or without finish marker
Inert(ev) ==
    \/ ev.type = "message.part.updated" /\ (ev.partType # "text" \/ ev.delta = "")
    \/ ev.type = "message.updated" /\ (ev.role # "assistant" \/ ~ev.finish)

PhaseAfter(ph, ev) ==
    IF IsTextPart(ev) THEN (IF ph = "parts" THEN "parts" ELSE "other")
    ELSE IF IsCompletion(ev) THEN (IF ph = "parts" THEN "completed" ELSE "other")
    ELSE ph

\* routeEventToUser 121-127, handleOpenCodeEvent, handleMessagePart 82-91,
\* handleMessageComplete 102-108: the lookup of the oldest waiting task
\* answers (the storage answers reads in the order they were issued) and
\* the handler runs up to its sendMessageToUser
TaskLookup(t, allKeys) ==
    /\ t \in 1..Len(tasks) /\ tasks[t].pc = "lookup"
    /\ \A j \in 1..(t - 1) : tasks[j].pc # "lookup"
    /\ LET ev == tasks[t].ev
           userId == findUserBySession(allKeys, ev.sessionId, ev.instanceId)
           key == getBufferKey(userId, ev.instanceId)
           appended == bufferGet(key) \o ev.delta
           flushPart == userId # 0 /\ IsTextPart(ev) /\ ev.delta # ""
                        /\ reachesThreshold(appended)
           flushDone == userId # 0 /\ IsCompletion(ev) /\ bufferGet(key) # ""
       IN  /\ messageBuffers' =
                 IF userId # 0 /\ IsTextPart(ev) /\ ev.delta # ""
                 THEN bufferSet(messageBuffers, key, appended)
                 ELSE messageBuffers
           /\ deliveries' =
                 IF flushPart THEN Append(deliveries, Delivery(userId, appended, key))
                 ELSE IF flushDone
                 THEN Append(deliveries, Delivery(userId, bufferGet(key), key))
                 ELSE deliveries
           /\ tasks' = IF flushPart \/ flushDone
                       THEN [tasks EXCEPT ![t].pc = "sending", ![t].userId = userId]
                       ELSE RemoveAt(tasks, t)
           /\ fed' = IF userId # 0 /\ IsTextPart(ev)
                     THEN [fed EXCEPT ![key] = Append(@, ev.delta)] ELSE fed
           /\ phase' = IF userId # 0
                       THEN [phase EXCEPT ![key] = PhaseAfter(@, ev)] ELSE phase
           /\ lastRoute' =
                 [routed |-> TRUE,
                  owners |-> { u \in DOMAIN store :
                                 SessionInfo(ev.sessionId, ev.instanceId) \in
                                   { store[u].sessions[i] :
                                       i \in 1..Len(store[u].sessions) } },
                  sameIdElsewhere |->
                     \E u \in DOMAIN store : \E i \in 1..Len(store[u].sessions) :
                        /\ store[u].sessions[i].id = ev.sessionId
                        /\ store[u].sessions[i].instanceId # ev.instanceId,
                  userId |-> userId,
                  changed |-> (messageBuffers' # messageBuffers
                               \/ deliveries' # deliveries),
                  inert |-> Inert(ev)]
    /\ UNCHANGED <<store, backendSessions, usedSessions, eventsLeft>>

\* handleMessagePart 91-92, handleMessageComplete 108-109: sendMessageToUser
\* has returned, the buffer is cleared
TaskSendDone(t) ==
    /\ t \in 1..Len(tasks) /\ tasks[t].pc = "sending"
    /\ LET key == getBufferKey(tasks[t].userId, tasks[t].ev.instanceId)
       IN  messageBuffers' = IF IsTextPart(tasks[t].ev)
                             THEN bufferSet(messageBuffers, key, "")
                             ELSE bufferDelete(messageBuffers, key)
    /\ tasks' = RemoveAt(tasks, t)
    /\ UNCHANGED <<store, backendSessions, usedSessions, deliveries,
                   eventsLeft, fed, phase, lastRoute>>

RouteStart ==
    /\ messageBuffers = <<>> /\ deliveries = <<>> /\ tasks = <<>>
    /\ fed = [k \in BufferKeys |-> <<>>]
    /\ phase = [k \in BufferKeys |-> "parts"]
    /\ lastRoute = NoRoute

\* the bot has started; one backend may hold a session made outside the bot
InitRoute ==
    /\ BotIdle /\ SweepIdle /\ SelectIdle
    /\ LaunchIdle /\ StreamIdle /\ CallIdle /\ RouteStart
    /\ store = <<>>
    /\ backendSessions \in SUBSET {<<"project-foo", "s1">>}
    /\ usedSessions = backendSessions
    /\ eventsLeft = MaxRoutes

NextRoute ==
    \/ \E u \in Users, i \in Instances \cup {""}, sid \in SessionIds :
          CreateSession(u, i, sid)
    \/ \E u \in Users, i \in Instances, sid \in SessionIds :
          AttachSession(u, i, sid)
    \/ \E u \in Users, sid \in SessionIds : SwitchSession(u, sid)
    \/ \E u \in Users, sid \in SessionIds : DeleteSession(u, sid)
    \/ \E u \in Users : CleanupUser(u)
    \/ \E ev \in RouteEvents : CallbackInTurn(ev)
    \/ \E t \in 1..Len(tasks), allKeys \in KeyOrders : TaskLookup(t, allKeys)
    \/ \E t \in 1..Len(tasks) : TaskSendDone(t)

SpecRoute ==
    InitRoute
    /\ [][NextRoute /\ UNCHANGED <<launchVars, streamVars, callVars, botVars,
                      sweepVars, selectVars>>]_vars

\* the users' operations on their sessions, no event in flight
InitUsers ==
    /\ BotIdle /\ SweepIdle /\ SelectIdle
    /\ LaunchIdle /\ StreamIdle /\ CallIdle /\ RouteStart
    /\ store = <<>>
    /\ backendSessions \in SUBSET {<<"project-foo", "s1">>}
    /\ usedSessions = backendSessions
    /\ eventsLeft = 0

NextUsers ==
    \/ \E u \in Users, i \in Instances \cup {""}, sid \in SessionIds :
          CreateSession(u, i, sid)
    \/ \E u \in Users, i \in Instances, sid \in SessionIds :
          AttachSession(u, i, sid)
    \/ \E u \in Users, sid \in SessionIds : SwitchSession(u, sid)
    \/ \E u \in Users, sid \in SessionIds : DeleteSession(u, sid)
    \/ \E u \in Users, i \in Instances : SetCurrentInstance(u, i)
    \/ \E u \in Users, i \in Instances : OpenProject(u, i)
    \/ \E u \in Users : CleanupUser(u)

SpecUsers ==
    InitUsers
    /\ [][NextUsers /\ UNCHANGED <<launchVars, streamVars, callVars, botVars,
                      sweepVars, selectVars>>]_vars

\* two users, each with one session of its own: user 1 on the default
\* instance, user 2 on project-foo
InitAssemble ==
    /\ BotIdle /\ SweepIdle /\ SelectIdle
    /\ LaunchIdle /\ StreamIdle /\ CallIdle /\ RouteStart
    /\ store = (1 :> [NewUserState(1, ConfigId) EXCEPT
                        !.sessions = <<SessionInfo("s1", ConfigId)>>,
                        !.currentSessionId = "s1"])
            @@ (2 :> [NewUserState(2, "project-foo") EXCEPT
                        !.sessions = <<SessionInfo("s1", "project-foo")>>,
                        !.currentSessionId = "s1"])
    /\ backendSessions = {<<ConfigId, "s1">>, <<"project-foo", "s1">>}
    /\ usedSessions = backendSessions
    /\ eventsLeft = MaxEvents

\* events handled one after the other, each handler run to its end
NextAssemble ==
    \/ \E ev \in RouteEvents : CallbackInTurn(ev)
    \/ \E t \in 1..Len(tasks), allKeys \in KeyOrders : TaskLookup(t, allKeys)
    \/ \E t \in 1..Len(tasks) : TaskSendDone(t)

SpecAssemble ==
    InitAssemble
    /\ [][NextAssemble /\ UNCHANGED <<launchVars, streamVars, callVars, botVars,
                      sweepVars, selectVars>>]_vars

\* events handed over as they arrive: the callback does not wait
NextAsync ==
    \/ \E ev \in RouteEvents : Callback(ev)
    \/ \E t \in 1..Len(tasks), allKeys \in KeyOrders : TaskLookup(t, allKeys)
    \/ \E t \in 1..Len(tasks) : TaskSendDone(t)

InitAsync ==
    /\ BotIdle /\ SweepIdle /\ SelectIdle
    /\ LaunchIdle /\ StreamIdle /\ CallIdle /\ RouteStart
    /\ store = (1 :> [NewUserState(1, ConfigId) EXCEPT
                        !.sessions = <<SessionInfo("s1", ConfigId)>>,
                        !.currentSessionId = "s1"])
    /\ backendSessions = {<<ConfigId, "s1">>}
    /\ usedSessions = backendSessions
    /\ eventsLeft = MaxTasks

SpecAsync ==
    InitAsync
    /\ [][NextAsync /\ UNCHANGED <<launchVars, streamVars, callVars, botVars,
                      sweepVars, selectVars>>]_vars

(***************************************************************************)
(* Claims about the router and the delta assembler.                        *)
(***************************************************************************)
\* the texts handed to sendMessageToUser for one buffer key, in call order
RECURSIVE DeliveredFor(_, _)
DeliveredFor(ds, key) ==
    IF ds = <<>> THEN <<>>
    ELSE (IF Head(ds).key = key THEN <<Head(ds).text>> ELSE <<>>)
         \o DeliveredFor(Tail(ds), key)

\* C5: when no stored user state holds a session with the event's session
\* id and instance id, routeEventToUser resolves no user, changes no buffer
\* and delivers nothing.
C5_NoOwnerNoDispatch ==
    (lastRoute.routed /\ lastRoute.owners = {})
    => (lastRoute.userId = 0 /\ ~lastRoute.changed)

\* an event was routed that nobody owns, while a user holds a session with
\* the same id on another instance
C5_Witness ==
    /\ lastRoute.routed /\ lastRoute.owners = {}
    /\ lastRoute.sameIdElsewhere
    /\ lastRoute.userId = 0

\* C6: each (session id, instance id) pair is in the stored session list
\* of at most one user.
C6_SessionOwnedByOneUser ==
    \A u1, u2 \in DOMAIN store :
        u1 # u2 =>
            \A i \in 1..Len(store[u1].sessions), j \in 1..Len(store[u2].sessions) :
                store[u1].sessions[i] # store[u2].sessions[j]

\* the part of C7 about a single fragment that reaches the threshold: it is
\* delivered at once and the buffer is empty
FlushedAtOnce(k) ==
    (phase[k] = "parts" /\ Len(fed[k]) = 1
       /\ Len(fed[k][1]) >= messageChunkSize)
    => (DeliveredFor(deliveries, k) = <<fed[k][1]>> /\ bufferGet(k) = "")

\* C7 as stated: from an empty buffer, any list of text fragments whose
\* accumulated length stays below messageChunkSize followed by one assistant
\* completion gives exactly one delivery, the concatenation, and an empty
\* buffer; a single fragment reaching the threshold is delivered at once.
C7_AnyFragmentsOneDelivery ==
    tasks = <<>> =>
        \A k \in BufferKeys :
            /\ (phase[k] = "completed" /\ Len(Concat(fed[k])) < messageChunkSize)
               => ( /\ DeliveredFor(deliveries, k) = <<Concat(fed[k])>>
                    /\ bufferGet(k) = "" )
            /\ FlushedAtOnce(k)

\* C7 amended: the same when at least one fragment of the list is not
\* empty (a list without text gives no delivery).
C7_TextFragmentsOneDelivery ==
    tasks = <<>> =>
        \A k \in BufferKeys :
            /\ ( /\ phase[k] = "completed"
                 /\ Concat(fed[k]) # ""
                 /\ Len(Concat(fed[k])) < messageChunkSize )
               => ( /\ DeliveredFor(deliveries, k) = <<Concat(fed[k])>>
                    /\ bufferGet(k) = "" )
            /\ FlushedAtOnce(k)

\* one key got two fragments and a completion, another one a single
\* fragment above the threshold; both were delivered
C7_Witness ==
    /\ tasks = <<>>
    /\ \E k \in BufferKeys :
          /\ phase[k] = "completed" /\ fed[k] = <<"a", "bc">>
          /\ DeliveredFor(deliveries, k) = <<"abc">>
    /\ \E k \in BufferKeys :
          /\ phase[k] = "parts" /\ fed[k] = <<"defgh">>
          /\ DeliveredFor(deliveries, k) = <<"defgh">>

IsPrefixText(s, t) == Len(s) <= Len(t) /\ SubSeq(t, 1, Len(s)) = s

C27_FragmentsDeliveredOnce ==
    tasks = <<>> =>
        \A k \in BufferKeys :
            Concat(DeliveredFor(deliveries, k)) \o bufferGet(k) = Concat(fed[k])

\* the handlers of text fragments for the key that have appended and are
\* awaiting their delivery
FragmentHandlers(k) ==
    { t \in 1..Len(tasks) :
        /\ tasks[t].pc = "sending" /\ IsTextPart(tasks[t].ev)
        /\ getBufferKey(tasks[t].userId, tasks[t].ev.instanceId) = k }

\* C29: whenever no fragment handler is in progress for a key, the buffer
\* of that key is shorter than messageChunkSize; and a fragment handler in
\* progress has handed a text of at least that length to the delivery.
C29_BufferBelowThreshold ==
    \A k \in BufferKeys :
        /\ FragmentHandlers(k) = {} => Len(bufferGet(k)) < messageChunkSize
        /\ FragmentHandlers(k) # {} =>
              \E i \in 1..Len(deliveries) :
                 deliveries[i].key = k /\ Len(deliveries[i].text) >= messageChunkSize

\* no handler in flight; a key got three fragments, the second one made
\* the buffer reach the threshold and was delivered with the first, the
\* third one is buffered
C29_Witness ==
    /\ tasks = <<>>
    /\ \E k \in BufferKeys :
          /\ fed[k] = <<"bc", "bc", "a">>
          /\ DeliveredFor(deliveries, k) = <<"bcbc">>
          /\ bufferGet(k) = "a"

\* C30: a part event that is not text or has no delta, and a message
\* update of the user role or without finish marker, change no buffer and
\* cause no delivery.
C30_InertEventsChangeNothing ==
    (lastRoute.routed /\ lastRoute.inert) => ~lastRoute.changed

\* the last event routed was such an event, it was resolved to a user, and
\* that user's buffer holds text it left alone
C30_Witness ==
    /\ lastRoute.routed /\ lastRoute.inert /\ lastRoute.userId # 0
    /\ ~lastRoute.changed
    /\ \E i \in Instances :
          bufferGet(getBufferKey(lastRoute.userId, i)) # ""

\* C24: the stream callback never blocks stream reading.  Whatever the
\* handlers in flight are waiting for (a storage scan, a delivery), as long
\* as a stream has a further event, the read loop of either instance can
\* hand it over.
C24_CallbackNeverBlocked ==
    eventsLeft > 0 => \A ev \in RouteEvents : ENABLED Callback(ev)

\* a handler of the default instance awaits its delivery, a later event of
\* the other instance has been handed over and awaits the storage scan,
\* and a further event can still be read
C24_Witness ==
    /\ eventsLeft > 0
    /\ \E t, j \in 1..Len(tasks) :
          /\ t < j
          /\ tasks[t].pc = "sending" /\ tasks[t].ev.instanceId = ConfigId
          /\ tasks[j].pc = "lookup" /\ tasks[j].ev.instanceId # ConfigId

(***************************************************************************)
(* validateProjectPath on its own (client.ts 107-148): one call on a path  *)
(* written with up to MaxSegs segments.                                    *)
(***************************************************************************)
MaxSegs == 5         \* segments of a path handed to validateProjectPath
SegNames == {"opt", "projects", "foo", "bar", "..", "etc"}
SegSeqs == UNION { [1..n -> SegNames] : n \in 0..MaxSegs }
ValidateInputs == { Path(abs, segs) : abs \in BOOLEAN, segs \in SegSeqs }

\* the { valid, error } object validateProjectPath returns
ValidationResult(reason) == [done |-> TRUE, valid |-> reason = "", error |-> reason]

Validate ==
    /\ arg.fn = "validateProjectPath" /\ ~ret.done
    /\ ret' = ValidationResult(validateProjectPath(arg.path))
    /\ UNCHANGED arg

InitValidate ==
    /\ BotIdle /\ SweepIdle /\ SelectIdle
    /\ LaunchIdle /\ StreamIdle /\ RouteIdle
    /\ arg \in { [fn |-> "validateProjectPath", path |-> p] : p \in ValidateInputs }
    /\ ret = Pending

NextValidate == Validate

SpecValidate ==
    InitValidate
    /\ [][NextValidate /\ UNCHANGED <<launchVars, streamVars, routeVars, botVars,
                      sweepVars, selectVars>>]_vars

HasDotDotSegment(p) == \E i \in 1..Len(p.segs) : p.segs[i] = ".."
Canonical(p) == normalize(p) = p
DenyListed(p) == p.abs /\ \E b \in BLOCKED_PATHS : UnderOrEqual(normalize(p), b)
UnmarkedDirectory(p) ==
    p.abs /\ isDirectory(normalize(p)) /\ ~hasIndicator(normalize(p))
UnderAllowList(p) == \E a \in allowedProjectPaths : UnderOrEqual(p, a)

\* C11: validateProjectPath rejects every path with a `..` segment, every
\* path equal to or under a deny-listed system directory and every
\* directory without a project marker; it accepts every path that is
\* absolute, canonical, under the allow-list, an existing directory and
\* holds a project marker.
C11_ValidationContract ==
    (arg.fn = "validateProjectPath" /\ ret.done) =>
        /\ HasDotDotSegment(arg.path) => ~ret.valid
        /\ DenyListed(arg.path) => ~ret.valid
        /\ UnmarkedDirectory(arg.path) => ~ret.valid
        /\ ( /\ isAbsolute(arg.path) /\ Canonical(arg.path)
             /\ UnderAllowList(arg.path) /\ existsSync(arg.path)
             /\ isDirectory(arg.path) /\ hasIndicator(arg.path) )
           => ret.valid

(***************************************************************************)
(* The backend client (client.ts 465-626): one operation of the object     *)
(* createOpenCodeClientForInstance returns, on one HTTP reply.             *)
(***************************************************************************)
ClientOps == {"createSession", "getSession", "listSessions", "deleteSession",
              "abortSession", "sendPrompt", "getMessages", "getProviders",
              "setProvider"}
Statuses == {200, 404, 500}
\* reply bodies: none, the JSON the operation expects, text that is not JSON
Bodies == {"", "json", "oops"}

responseOk(status) == status \in 200..299

\* apiRequest: throws on a status that is not ok and on a body JSON.parse
\* rejects; {} for an empty body
Thrown == [threw |-> TRUE, data |-> "none"]
apiRequest(status, body) ==
    IF ~responseOk(status) THEN Thrown
    ELSE IF body = "" THEN [threw |-> FALSE, data |-> "empty"]
    ELSE IF body = "json" THEN [threw |-> FALSE, data |-> "parsed"]
    ELSE Thrown

Returns(value) == [done |-> TRUE, threw |-> FALSE, value |-> value]
Throws == [done |-> TRUE, threw |-> TRUE, value |-> "none"]

\* createSession / getSession body: data.time.created of {} is a TypeError
toSession(r) == IF r.threw \/ r.data = "empty" THEN Throws ELSE Returns("session")
\* listSessions / getMessages body: data.map of {} is a TypeError
toList(r) == IF r.threw \/ r.data = "empty" THEN Throws ELSE Returns("list")

\* try { ... } catch { return fallback }
catching(outcome, fallback) == IF outcome.threw THEN Returns(fallback) ELSE outcome

clientCall(op, status, body) ==
    LET r == apiRequest(status, body)
    IN  CASE op = "createSession" -> toSession(r)
          [] op = "getSession" -> catching(toSession(r), "null")
          [] op = "listSessions" -> catching(toList(r), "[]")
          [] op = "deleteSession" ->
                catching(IF r.threw THEN Throws ELSE Returns("true"), "false")
          [] op = "abortSession" ->
                catching(IF r.threw THEN Throws ELSE Returns("true"), "false")
          [] op = "sendPrompt" -> IF r.threw THEN Throws ELSE Returns("void")
          [] op = "getMessages" -> catching(toList(r), "[]")
          [] op = "getProviders" ->
                catching(IF r.threw THEN Throws
                         ELSE IF r.data = "empty" THEN Returns("[]")
                         ELSE Returns("list"), "[]")
          [] op = "setProvider" ->
                catching(IF r.threw THEN Throws ELSE Returns("true"), "false")

ClientCall ==
    /\ arg.fn \in ClientOps /\ ~ret.done
    /\ ret' = clientCall(arg.fn, arg.status, arg.body)
    /\ UNCHANGED arg

InitClient ==
    /\ BotIdle /\ SweepIdle /\ SelectIdle
    /\ LaunchIdle /\ StreamIdle /\ RouteIdle
    /\ arg \in { [fn |-> op, status |-> st, body |-> b] :
                   op \in ClientOps, st \in Statuses, b \in Bodies }
    /\ ret = Pending

NextClient == ClientCall

SpecClient ==
    InitClient
    /\ [][NextClient /\ UNCHANGED <<launchVars, streamVars, routeVars, botVars,
                      sweepVars, selectVars>>]_vars

FailureValues == {"null", "[]", "false"}

\* C17: every operation of the backend client turns an HTTP reply whose
\* status is not a success into a failure result for its caller and throws
\* nothing.
C17_FailureIsResultNotThrow ==
    (arg.fn \in ClientOps /\ ret.done /\ ~responseOk(arg.status))
    => (~ret.threw /\ ret.value \in FailureValues)

(***************************************************************************)
(* Claims about the persisted user state.                                  *)
(***************************************************************************)
SessionIdsOf(state) == { state.sessions[i].id : i \in 1..Len(state.sessions) }

\* C18: in every persisted user state, currentSessionId is null or the id
\* of an element of that user's sessions list.
C18_CurrentSessionIsListed ==
    \A u \in DOMAIN store :
        store[u].currentSessionId = ""
        \/ store[u].currentSessionId \in SessionIdsOf(store[u])

\* the entries of the list that carry the current session id
CurrentSessions(state) ==
    { state.sessions[i] : i \in { j \in 1..Len(state.sessions) :
                                     state.sessions[j].id = state.currentSessionId } }

\* C19: in the state getOrCreateUserState returns, when currentSessionId
\* and currentInstanceId are both set, currentInstanceId is the instance
\* of the current session (the instance sendMessage sends the prompt to).
C19_CurrentInstanceOwnsSession ==
    \A u \in DOMAIN store :
        LET state == getOrCreateUserState(u)
        IN  ( /\ state.currentSessionId # "" /\ state.currentInstanceId # ""
              /\ state.currentSessionId \in SessionIdsOf(state) )
            => SessionInfo(state.currentSessionId, state.currentInstanceId)
                 \in CurrentSessions(state)

(***************************************************************************)
(* chunkMessage (session-manager.ts 204-246).  A text is a sequence of     *)
(* characters.                                                             *)
(***************************************************************************)
MaxText == 7         \* characters of the text handed to chunkMessage
MaxChunk == 3        \* largest maxLength explored (4000 by default)
Chars == {"a", ".", "\n"}
Terminators == {".", "!", "?"}
Whitespace == {" ", "\n"}
Texts == UNION { [1..n -> Chars] : n \in 0..MaxText }

Drop(s, n) == SubSeq(s, n + 1, Len(s))

\* text.split("\n\n")
RECURSIVE SplitParagraphs(_, _, _)
SplitParagraphs(s, cur, acc) ==
    IF s = <<>> THEN Append(acc, cur)
    ELSE IF Len(s) >= 2 /\ s[1] = "\n" /\ s[2] = "\n"
         THEN SplitParagraphs(Drop(s, 2), <<>>, Append(acc, cur))
         ELSE SplitParagraphs(Tail(s), Append(cur, Head(s)), acc)
paragraphsOf(text) == SplitParagraphs(text, <<>>, <<>>)

\* length of the longest prefix made of terminators (term) or of other
\* characters (~term)
RECURSIVE RunLen(_, _)
RunLen(s, term) ==
    IF s = <<>> \/ ((Head(s) \in Terminators) # term) THEN 0
    ELSE 1 + RunLen(Tail(s), term)

\* paragraph.match(/[^.!?]+[.!?]+/g): the matches, left to right
RECURSIVE Matches(_)
Matches(s) ==
    LET rest == Drop(s, RunLen(s, TRUE))
        words == RunLen(rest, FALSE)
        marks == RunLen(Drop(rest, words), TRUE)
    IN  IF words = 0 \/ marks = 0 THEN <<>>
        ELSE <<SubSeq(rest, 1, words + marks)>> \o Matches(Drop(rest, words + marks))

\* paragraph.match(...) || [paragraph]
sentencesOf(paragraph) ==
    IF Matches(paragraph) = <<>> THEN <<paragraph>> ELSE Matches(paragraph)

\* String.prototype.trim
RECURSIVE trimStart(_)
trimStart(s) ==
    IF s # <<>> /\ Head(s) \in Whitespace THEN trimStart(Tail(s)) ELSE s
RECURSIVE trimEnd(_)
trimEnd(s) ==
    IF s # <<>> /\ s[Len(s)] \in Whitespace
    THEN trimEnd(SubSeq(s, 1, Len(s) - 1)) ELSE s
trim(s) == trimEnd(trimStart(s))

\* a splitter that never finds a piece too long for the current chunk
exceedsNever(curLen, pieceLen, maxLength) == FALSE

\* lines 216 and 226: the piece does not fit into the current chunk
exceeds(curLen, pieceLen, maxLength) == curLen + pieceLen > maxLength

\* if (currentChunk.trim()) chunks.push(currentChunk.trim())
pushTrimmed(chunks, cur) == IF trim(cur) # <<>> THEN Append(chunks, trim(cur)) ELSE chunks

\* lines 225-234: the loop over the sentences; gives <<chunks, currentChunk>>
RECURSIVE SentenceLoop(_, _, _, _)
SentenceLoop(sents, cur, chunks, maxLength) ==
    IF sents = <<>> THEN <<chunks, cur>>
    ELSE IF exceeds(Len(cur), Len(Head(sents)), maxLength)
         THEN SentenceLoop(Tail(sents), Head(sents), pushTrimmed(chunks, cur),
                           maxLength)
         ELSE SentenceLoop(Tail(sents), cur \o Head(sents), chunks, maxLength)

\* lines 215-241: the loop over the paragraphs; gives <<chunks, currentChunk>>
RECURSIVE ParagraphLoop(_, _, _, _)
ParagraphLoop(paras, cur, chunks, maxLength) ==
    IF paras = <<>> THEN <<chunks, cur>>
    ELSE LET p == Head(paras)
             flushed == pushTrimmed(chunks, cur)
             kept == IF trim(cur) # <<>> THEN <<>> ELSE cur
             bySentence == SentenceLoop(sentencesOf(p), kept, flushed, maxLength)
         IN  IF exceeds(Len(cur), Len(p) + 2, maxLength)
             THEN IF Len(p) > maxLength
                  THEN ParagraphLoop(Tail(paras), bySentence[2], bySentence[1],
                                     maxLength)
                  ELSE ParagraphLoop(Tail(paras), p, flushed, maxLength)
             ELSE ParagraphLoop(Tail(paras),
                                cur \o (IF cur # <<>> THEN <<"\n", "\n">> ELSE <<>>) \o p,
                                chunks, maxLength)

\* a splitter without the early return of lines 205-207
chunkUnguarded(text, maxLength) ==
    LET end == ParagraphLoop(paragraphsOf(text), <<>>, <<>>, maxLength)
    IN  pushTrimmed(end[1], end[2])

chunkMessage(text, maxLength) ==
    IF Len(text) <= maxLength THEN <<text>>
    ELSE LET end == ParagraphLoop(paragraphsOf(text), <<>>, <<>>, maxLength)
         IN  pushTrimmed(end[1], end[2])

Chunk ==
    /\ arg.fn = "chunkMessage" /\ ~ret.done
    /\ ret' = [done |-> TRUE, chunks |-> chunkMessage(arg.text, arg.maxLength)]
    /\ UNCHANGED arg

InitChunk ==
    /\ BotIdle /\ SweepIdle /\ SelectIdle
    /\ LaunchIdle /\ StreamIdle /\ RouteIdle
    /\ arg \in { [fn |-> "chunkMessage", text |-> t, maxLength |-> m] :
                   t \in Texts, m \in 1..MaxChunk }
    /\ ret = Pending

NextChunk == Chunk

SpecChunk ==
    InitChunk
    /\ [][NextChunk /\ UNCHANGED <<launchVars, streamVars, routeVars, botVars,
                      sweepVars, selectVars>>]_vars

\* the sentences of the text that are by themselves longer than maxLength
LongSentences(text, maxLength) ==
    UNION { { sentencesOf(paragraphsOf(text)[i])[j] :
                j \in { k \in 1..Len(sentencesOf(paragraphsOf(text)[i])) :
                          Len(sentencesOf(paragraphsOf(text)[i])[k]) > maxLength } }
            : i \in 1..Len(paragraphsOf(text)) }

\* C20: every chunk chunkMessage returns is at most maxLength long, unless
\* it is one single sentence of the text that is by itself longer than
\* maxLength.
C20_ChunkWithinMaxLength ==
    (arg.fn = "chunkMessage" /\ ret.done) =>
        \A i \in 1..Len(ret.chunks) :
            \/ Len(ret.chunks[i]) <= arg.maxLength
            \/ \E sentence \in LongSentences(arg.text, arg.maxLength) :
                  ret.chunks[i] = trim(sentence)

\* a text cut into several chunks, one of them a sentence longer than
\* maxLength, another one of several characters within maxLength
C20_Witness ==
    /\ arg.fn = "chunkMessage" /\ ret.done
    /\ Len(ret.chunks) >= 2
    /\ \E i \in 1..Len(ret.chunks) : Len(ret.chunks[i]) > arg.maxLength
    /\ \E i \in 1..Len(ret.chunks) :
          Len(ret.chunks[i]) >= 2 /\ Len(ret.chunks[i]) <= arg.maxLength

\* the text is the chunks in their order, with nothing but separators
\* (white space, possibly none) before, between and after them
RECURSIVE Rebuilds(_, _)
Rebuilds(text, chunks) ==
    IF chunks = <<>> THEN trim(text) = <<>>
    ELSE \E k \in 0..Len(text) :
            /\ trim(SubSeq(text, 1, k)) = <<>>
            /\ IsPrefix(Head(chunks), Drop(text, k))
            /\ Rebuilds(Drop(text, k + Len(Head(chunks))), Tail(chunks))

\* C21: the chunks chunkMessage returns, put together again with the
\* separators that stood between them, are the input text: no character of
\* the text is dropped or altered.
C21_ChunksRebuildText ==
    (arg.fn = "chunkMessage" /\ ret.done) => Rebuilds(arg.text, ret.chunks)

\* C22: a text of at most maxLength characters comes back as one chunk,
\* identical to the text.
C22_ShortTextUnchanged ==
    (arg.fn = "chunkMessage" /\ ret.done /\ Len(arg.text) <= arg.maxLength) =>
        ret.chunks = <<arg.text>>

\* a text of exactly maxLength characters that begins with a line break
\* and has come back as it was
C22_Witness ==
    /\ arg.fn = "chunkMessage" /\ ret.done
    /\ Len(arg.text) = arg.maxLength /\ arg.maxLength >= 2
    /\ Head(arg.text) = "\n"
    /\ ret.chunks = <<arg.text>>

(***************************************************************************)
(* The bot's middleware (commands.ts 56-84): every update passes the       *)
(* authorization middleware, then the rate limiter, then the handlers.     *)
(* Time is counted in ticks; several updates may arrive within one tick.   *)
(***************************************************************************)
MaxClock == 3            \* ticks the clock advances
MaxUpdates == 4          \* updates Telegram delivers
rateLimitMessages == 2   \* config.bot.rateLimitMessages, scaled (30 by default)
WindowTicks == 2         \* the 60000 ms of line 76, in ticks

allowedUserIds == Users  \* config.telegram.allowedUserIds
Stranger == 3            \* a Telegram user who is not on the list
Senders == {0} \cup allowedUserIds \cup {Stranger}   \* 0: ctx.from is absent
ChatTypes == {"private", "group"}

\* an authorization that tests the allow-list only
authorizeAnyChat(userId, chat) ==
    IF userId = 0 THEN "dropped"
    ELSE IF userId \notin allowedUserIds THEN "unauthorized"
    ELSE "next"

\* lines 56-66: what the authorization middleware does with an update
authorize(userId, chat) ==
    IF userId = 0 THEN "dropped"
    ELSE IF userId \notin allowedUserIds THEN "unauthorized"
    ELSE IF chat # "private" THEN "dropped"
    ELSE "next"

\* lines 74-82: the limiter's entry of the user after this update, and
\* whether the update goes on
freshWindow(userId) ==
    userId \notin DOMAIN userMessageCounts
    \/ now > userMessageCounts[userId].resetTime
limited(userId) ==
    ~freshWindow(userId) /\ userMessageCounts[userId].count >= rateLimitMessages
countsAfter(userId) ==
    IF freshWindow(userId)
    THEN (userId :> [count |-> 1, resetTime |-> now + WindowTicks])
         @@ userMessageCounts
    ELSE IF limited(userId) THEN userMessageCounts
    ELSE [userMessageCounts EXCEPT ![userId].count = @ + 1]

\* one update: the two middlewares, then the handler.  The handler is the
\* one of /start (lines 86-91), which stores a state for a new user.
Update(userId, chat) ==
    /\ updatesLeft > 0
    /\ updatesLeft' = updatesLeft - 1
    /\ LET auth == authorize(userId, chat)
           outcome == IF auth # "next" THEN auth
                      ELSE IF limited(userId) THEN "limited" ELSE "handled"
       IN  /\ lastUpdate' = [userId |-> userId, chat |-> chat, outcome |-> outcome]
           /\ userMessageCounts' =
                 IF auth = "next" THEN countsAfter(userId) ELSE userMessageCounts
           /\ IF outcome = "handled"
              THEN /\ passed' = [passed EXCEPT ![userId] = Append(@, now)]
                   /\ reached' = reached \cup {<<userId, chat>>}
                   /\ store' = storageSet(store, userId, ensureUserState(userId))
              ELSE UNCHANGED <<passed, reached, store>>
    /\ UNCHANGED now

\* time passes
Tick ==
    /\ now < MaxClock
    /\ now' = now + 1
    /\ UNCHANGED <<userMessageCounts, passed, reached, lastUpdate, updatesLeft,
                   store>>

InitBot ==
    /\ LaunchIdle /\ StreamIdle /\ RouteIdle /\ CallIdle
    /\ SweepIdle /\ SelectIdle
    /\ now = 0 /\ userMessageCounts = <<>> /\ reached = {}
    /\ passed = [u \in Users |-> <<>>]
    /\ lastUpdate = NoUpdate
    /\ updatesLeft = MaxUpdates

NextBot ==
    \/ \E userId \in Senders, chat \in ChatTypes : Update(userId, chat)
    \/ Tick

SpecBot ==
    InitBot
    /\ [][NextBot /\ UNCHANGED <<launchVars, streamVars, callVars,
                                backendSessions, messageBuffers, deliveries,
                                tasks, eventsLeft, usedSessions, fed, phase,
                                lastRoute, sweepVars, selectVars>>]_vars

\* the updates of the user given to the handlers at a time t with
\* from <= t < from + WindowTicks
PassedWithin(userId, from) ==
    Cardinality({ i \in 1..Len(passed[userId]) :
                    /\ from <= passed[userId][i]
                    /\ passed[userId][i] < from + WindowTicks })

\* C25: for every user, in any interval of 60 seconds at most
\* rateLimitMessages updates of that user are given to the handlers.
C25_AtMostLimitPerWindow ==
    \A userId \in Users, from \in 0..MaxClock :
        PassedWithin(userId, from) <= rateLimitMessages

\* C26: an update of a user who is not on the allow-list, or sent in a chat
\* that is not private, reaches no handler: no such update was given to the
\* handlers, none is marked handled, and no state is stored for such a user.
C26_OnlyAllowedPrivateReachHandlers ==
    /\ \A r \in reached : r[1] \in allowedUserIds /\ r[2] = "private"
    /\ lastUpdate.outcome \in {"handled", "limited"}
          => (lastUpdate.userId \in allowedUserIds /\ lastUpdate.chat = "private")
    /\ DOMAIN store \subseteq { r[1] : r \in reached }

\* a stranger's update has just been turned away, after an update of a
\* listed user in a group chat left no trace and one in a private chat was
\* handled
C26_Witness ==
    /\ lastUpdate = [userId |-> Stranger, chat |-> "private",
                     outcome |-> "unauthorized"]
    /\ reached = {<<1, "private">>}
    /\ DOMAIN store = {1}
    /\ updatesLeft <= MaxUpdates - 3

(***************************************************************************)
(* The entry of routeEventToUser (part_002 113-146): one event, described  *)
(* by what it carries at the places extractSessionIdFromEvent looks at.    *)
(***************************************************************************)
\* what stands at a place: no such key, a value that is not a string, or a
\* string
IdValues == {"absent", "number", "", "s1", "s2"}
isString(v) == v \notin {"absent", "number"}

\* hasProperties: `properties` is a non-null object; top, info, part: the
\* sessionID of properties, of properties.info, of properties.part
EventShapes ==
    [hasProperties : BOOLEAN, top : IdValues, info : IdValues, part : IdValues]

\* lines 130-146; "null" is null
extractSessionId(shape) ==
    IF ~shape.hasProperties THEN "null"
    ELSE IF isString(shape.top) THEN shape.top
    ELSE IF isString(shape.info) THEN shape.info
    ELSE IF isString(shape.part) THEN shape.part
    ELSE "null"

\* a test that takes only null for a missing id
isNull(sessionId) == sessionId = "null"

\* line 115: !sessionId
falsy(sessionId) == sessionId \in {"null", ""}

\* lines 114-121: dropped, or the storage scan of findUserBySession starts
routeEntry(shape) ==
    [done |-> TRUE,
     sessionId |-> extractSessionId(shape),
     dropped |-> falsy(extractSessionId(shape)),
     scanned |-> ~falsy(extractSessionId(shape))]

RouteEntry ==
    /\ arg.fn = "routeEventToUser" /\ ~ret.done
    /\ ret' = routeEntry(arg.event)
    /\ UNCHANGED arg

InitExtract ==
    /\ BotIdle /\ SweepIdle /\ SelectIdle
    /\ LaunchIdle /\ StreamIdle /\ RouteIdle
    /\ arg \in { [fn |-> "routeEventToUser", event |-> e] : e \in EventShapes }
    /\ ret = Pending

NextExtract == RouteEntry

SpecExtract ==
    InitExtract
    /\ [][NextExtract /\ UNCHANGED <<launchVars, streamVars, routeVars, botVars,
                      sweepVars, selectVars>>]_vars

\* the event carries an identifier at none of the three places
NoIdentifier(shape) ==
    \/ ~shape.hasProperties
    \/ \A v \in {shape.top, shape.info, shape.part} : ~isString(v) \/ v = ""

\* C31: an event that carries a session identifier neither at the top
\* level nor under info nor under part is dropped before any user state is
\* read; the router part, where handlers, buffers and deliveries live, is
\* not entered.
C31_NoIdentifierDropped ==
    (arg.fn = "routeEventToUser" /\ ret.done /\ NoIdentifier(arg.event)) =>
        (ret.dropped /\ ~ret.scanned)

\* an event with properties, a sessionID that is not a string at the top,
\* none under info and an empty one under part, was dropped
C31_Witness ==
    /\ arg.fn = "routeEventToUser" /\ ret.done
    /\ arg.event = [hasProperties |-> TRUE, top |-> "number", info |-> "absent",
                    part |-> ""]
    /\ ret.dropped /\ ~ret.scanned

(***************************************************************************)
(* handleOpenCodeEvent (part_002 42-71) with sendMessageToUser (223-245):  *)
(* one event routed to a user, with what may fail while it is handled.     *)
(***************************************************************************)
EventKinds ==
    {"message.part.updated", "message.updated", "session.status",
     "permission.updated", "todo.updated", "session.error", "unknown"}
\* bot.api.sendMessage: succeeds, fails with Markdown and succeeds plain,
\* fails both times
SendOutcomes == {"ok", "markdownFails", "bothFail"}

\* lines 223-245: the number of sendMessage attempts; every failure is
\* caught and logged
sendMessageToUser(botSet, sending) ==
    Returns(IF ~botSet THEN 0 ELSE IF sending = "ok" THEN 1 ELSE 2)

\* the handler of the kind: a statement of it throws (properties of
\* another shape, sendChatAction rejected), or it delivers
handlerBody(kind, handlerThrows, botSet, sending) ==
    IF kind = "unknown" THEN Returns(0)
    ELSE IF handlerThrows THEN Throws
    ELSE sendMessageToUser(botSet, sending)

\* a switch without try/catch around it
passOn(outcome) == outcome

\* lines 43 and 68-70: try { switch ... } catch { logger.error }
absorb(outcome) == IF outcome.threw THEN Returns(0) ELSE outcome

handleOpenCodeEvent(kind, handlerThrows, botSet, sending) ==
    absorb(handlerBody(kind, handlerThrows, botSet, sending))

\* routeEventToUser 122-124 for an event resolved to a user: the outcome of
\* its promise
HandleEvent ==
    /\ arg.fn = "handleOpenCodeEvent" /\ ~ret.done
    /\ ret' = handleOpenCodeEvent(arg.kind, arg.handlerThrows, arg.botSet,
                                  arg.sending)
    /\ UNCHANGED arg

InitHandle ==
    /\ BotIdle /\ SweepIdle /\ SelectIdle
    /\ LaunchIdle /\ StreamIdle /\ RouteIdle
    /\ arg \in { [fn |-> "handleOpenCodeEvent", kind |-> k, handlerThrows |-> t,
                  botSet |-> b, sending |-> o] :
                   k \in EventKinds, t \in BOOLEAN, b \in BOOLEAN,
                   o \in SendOutcomes }
    /\ ret = Pending

NextHandle == HandleEvent

SpecHandle ==
    InitHandle
    /\ [][NextHandle /\ UNCHANGED <<launchVars, streamVars, routeVars, botVars,
                      sweepVars, selectVars>>]_vars

\* C32: an event of an unknown kind, and an event whose handler or whose
\* delivery fails, does not make routeEventToUser fail: its promise is
\* never rejected, so nothing reaches the stream callback.
C32_HandlerFailureAbsorbed ==
    (arg.fn = "handleOpenCodeEvent" /\ ret.done) => ~ret.threw

\* a todo update whose handler threw has been handled without a rejection
C32_Witness ==
    /\ arg.fn = "handleOpenCodeEvent" /\ ret.done
    /\ arg.kind = "todo.updated" /\ arg.handlerThrows
    /\ ~ret.threw

(***************************************************************************)
(* SessionManager.createSession and deleteSession (session-manager.ts      *)
(* 65-89, 123-146) as calls on one user's stored state, with the registry  *)
(* and the reply of the backend as inputs.                                 *)
(***************************************************************************)
SessionUser == 1
NewSessionId == "s3"      \* the id the backend gives to a session it makes
\* the registry: the configured instance, with or without the project's
\* (a project instance is not registered again after a restart)
Registries == { {ConfigId}, {ConfigId, "project-foo"} }
SessionLists ==
    { <<>>, <<SessionInfo("s1", ConfigId)>>, <<SessionInfo("s1", "project-foo")>>,
      <<SessionInfo("s1", ConfigId), SessionInfo("s2", "project-foo")>> }
\* what the storage holds for the user: nothing, or a state whose current
\* session is null or listed
StoredStates ==
    { <<>> } \cup
    { (SessionUser :> [userId |-> SessionUser, currentSessionId |-> cs,
                       currentInstanceId |-> ci, sessions |-> ss]) :
        ss \in SessionLists,
        cs \in {""} \cup {"s1", "s2"},
        ci \in {"", ConfigId, "project-foo"} }
ReachableStored(st) ==
    SessionUser \in DOMAIN st =>
        /\ st[SessionUser].currentSessionId \in
              {""} \cup { st[SessionUser].sessions[i].id :
                            i \in 1..Len(st[SessionUser].sessions) }
        /\ st[SessionUser].currentInstanceId = ""
              => st[SessionUser].sessions = <<>>

Outcome(result, st) ==
    [done |-> TRUE, threw |-> result.threw, value |-> result.value, stored |-> st]

\* a createSession that records the session before the backend has answered
pushedRegardless(state, target, reply) ==
    [state EXCEPT !.sessions = Append(@, SessionInfo(NewSessionId, target)),
                  !.currentSessionId = NewSessionId,
                  !.currentInstanceId = target]

\* lines 70-83: the state after `await client.createSession(title)`
pushedOnReply(state, target, reply) ==
    IF reply.threw THEN state
    ELSE [state EXCEPT !.sessions = Append(@, SessionInfo(NewSessionId, target)),
                       !.currentSessionId = NewSessionId,
                       !.currentInstanceId = target]

\* SessionManager.createSession
createSession(st, userId, instanceId, registry, status, body) ==
    LET state == getOrCreateIn(st, userId)
        loaded == storageSet(st, userId, state)
        target == IF instanceId # "" THEN instanceId
                  ELSE IF state.currentInstanceId # ""
                       THEN state.currentInstanceId ELSE ConfigId
        reply == clientCall("createSession", status, body)
    IN  IF target \notin registry THEN Outcome(Throws, loaded)
        ELSE IF reply.threw
             THEN Outcome(Throws, storageSet(st, userId,
                                     pushedOnReply(state, target, reply)))
        ELSE Outcome(reply, storageSet(st, userId,
                                pushedOnReply(state, target, reply)))

\* SessionManager.deleteSession
deleteSession(st, userId, sessionId, registry, status, body) ==
    LET state == getOrCreateIn(st, userId)
        loaded == storageSet(st, userId, state)
        i == findIndexById(state.sessions, sessionId)
        rest == splice(state.sessions, i)
        reply == clientCall("deleteSession", status, body)
    IN  IF i = 0 THEN Outcome(Returns("false"), loaded)
        ELSE IF state.sessions[i].instanceId \notin registry
             THEN Outcome(Throws, loaded)
        ELSE IF reply.value = "false" THEN Outcome(Returns("false"), loaded)
        ELSE Outcome(Returns("true"), storageSet(st, userId,
                IF state.currentSessionId = sessionId
                THEN [state EXCEPT
                        !.sessions = rest,
                        !.currentSessionId =
                            IF Len(rest) > 0 THEN rest[1].id ELSE "",
                        !.currentInstanceId =
                            IF Len(rest) > 0 THEN rest[1].instanceId ELSE ""]
                ELSE [state EXCEPT !.sessions = rest]))

SessionOps == {"SessionManager.createSession", "SessionManager.deleteSession"}

SessionCall ==
    /\ arg.fn \in SessionOps /\ ~ret.done
    /\ ret' = IF arg.fn = "SessionManager.createSession"
              THEN createSession(arg.stored, SessionUser, arg.id, arg.registry,
                                 arg.status, arg.body)
              ELSE deleteSession(arg.stored, SessionUser, arg.id, arg.registry,
                                 arg.status, arg.body)
    /\ UNCHANGED arg

InitSession ==
    /\ BotIdle /\ SweepIdle /\ SelectIdle
    /\ LaunchIdle /\ StreamIdle /\ RouteIdle
    /\ arg \in { [fn |-> op, stored |-> st, id |-> id, registry |-> reg,
                  status |-> status, body |-> b] :
                   op \in SessionOps,
                   st \in { x \in StoredStates : ReachableStored(x) },
                   id \in {"", ConfigId, "project-foo", "s1", "s9"},
                   reg \in Registries, status \in Statuses, b \in Bodies }
    /\ (arg.fn = "SessionManager.createSession") = (arg.id \in {"", ConfigId, "project-foo"})
    /\ ret = Pending

NextSession == SessionCall

SpecSession ==
    InitSession
    /\ [][NextSession /\ UNCHANGED <<launchVars, streamVars, routeVars, botVars,
                      sweepVars, selectVars>>]_vars

\* the sessions, current session and current instance a storage content
\* gives the user (those of a new state when it holds none)
SelectionOf(st) ==
    IF SessionUser \in DOMAIN st
    THEN <<st[SessionUser].sessions, st[SessionUser].currentSessionId,
           st[SessionUser].currentInstanceId>>
    ELSE <<<<>>, "", "">>
SessionCallFailed == ret.threw \/ ret.value = "false"
RecordsOf(st) ==
    IF SessionUser \in DOMAIN st
    THEN { st[SessionUser].sessions[i] : i \in 1..Len(st[SessionUser].sessions) }
    ELSE {}

sessionTimeoutMs == 1     \* config.bot.sessionTimeoutMs, in ticks

\* lines 185-186: now - lastActivity > timeoutMs
expired(at, activity) == at - activity > sessionTimeoutMs

\* lines 177-178: storage.keys has answered, `now` is taken
SweepStart(allKeys) ==
    /\ sweep.pc = "idle"
    /\ sweep' = [sweep EXCEPT !.pc = "get", !.keys = allKeys, !.now = now]
    /\ UNCHANGED <<store, backendSessions, lastActivity, now>>

\* lines 181-192: storage.get of the next key has answered; the state is
\* skipped, or its first backend session is being deleted, or (no
\* session) the key is deleted
SweepGet ==
    /\ sweep.pc = "get"
    /\ IF sweep.keys = <<>>
       THEN /\ sweep' = [sweep EXCEPT !.pc = "idle"]
            /\ UNCHANGED <<store, lastActivity>>
       ELSE LET key == Head(sweep.keys)
            IN  IF key \notin DOMAIN store
                   \/ ~expired(sweep.now, lastActivity[key])
                THEN /\ sweep' = [sweep EXCEPT !.keys = Tail(@)]
                     /\ UNCHANGED <<store, lastActivity>>
                ELSE IF store[key].sessions = <<>>
                THEN /\ sweep' = [sweep EXCEPT !.keys = Tail(@)]
                     /\ store' = storageDelete(store, key)
                     /\ lastActivity' = storageDelete(lastActivity, key)
                ELSE /\ sweep' = [sweep EXCEPT !.pc = "deleting",
                                               !.left = store[key].sessions]
                     /\ UNCHANGED <<store, lastActivity>>
    /\ UNCHANGED <<backendSessions, now>>

\* lines 189-198: client.deleteSession of a session has answered; after the
\* last one storage.delete(key) follows at once
SweepDeleteSession ==
    /\ sweep.pc = "deleting"
    /\ LET key == Head(sweep.keys)
           session == Head(sweep.left)
       IN  /\ backendSessions' =
                 backendSessions \ {<<session.instanceId, session.id>>}
           /\ IF Len(sweep.left) > 1
              THEN /\ sweep' = [sweep EXCEPT !.left = Tail(@)]
                   /\ UNCHANGED <<store, lastActivity>>
              ELSE /\ store' = storageDelete(store, key)
                   /\ lastActivity' = storageDelete(lastActivity, key)
                   /\ sweep' = [sweep EXCEPT
                        !.pc = "get", !.keys = Tail(@), !.left = <<>>,
                        !.erasedFresh =
                            @ \/ (key \in DOMAIN store
                                  /\ ~expired(now, lastActivity[key]))]
    /\ UNCHANGED now

\* SessionManager.sendMessage 148-166: the prompt reached the session and
\* the state is stored with lastActivity = new Date()
SendMessage(userId) ==
    /\ userId \in DOMAIN store
    /\ store[userId].currentSessionId # "" /\ store[userId].currentInstanceId # ""
    /\ <<store[userId].currentInstanceId, store[userId].currentSessionId>>
          \in backendSessions
    /\ lastActivity[userId] # now
    /\ lastActivity' = [lastActivity EXCEPT ![userId] = now]
    /\ UNCHANGED <<store, backendSessions, sweep, now>>

InitSweep ==
    /\ BotIdle /\ SelectIdle
    /\ LaunchIdle /\ StreamIdle /\ CallIdle /\ RouteStart
    /\ store = (1 :> [NewUserState(1, ConfigId) EXCEPT
                        !.sessions = <<SessionInfo("s1", ConfigId)>>,
                        !.currentSessionId = "s1"])
            @@ (2 :> [NewUserState(2, "project-foo") EXCEPT
                        !.sessions = <<SessionInfo("s1", "project-foo")>>,
                        !.currentSessionId = "s1"])
    /\ backendSessions = {<<ConfigId, "s1">>, <<"project-foo", "s1">>}
    /\ usedSessions = backendSessions
    /\ eventsLeft = 0
    /\ lastActivity = [u \in Users |-> 0]
    /\ sweep = NoSweep

NextSweep ==
    \/ \E allKeys \in KeyOrders : SweepStart(allKeys)
    \/ SweepGet
    \/ SweepDeleteSession
    \/ \E userId \in Users : SendMessage(userId)
    \/ Tick /\ UNCHANGED <<backendSessions, lastActivity, sweep>>

SpecSweep ==
    InitSweep
    /\ [][NextSweep /\ UNCHANGED <<launchVars, streamVars, callVars, selectVars,
                                  userMessageCounts, passed, reached,
                                  lastUpdate, updatesLeft, messageBuffers,
                                  deliveries, tasks, eventsLeft, usedSessions,
                                  fed, phase, lastRoute>>]_vars

\* C37: the sweep deletes the stored state of a user only when its
\* lastActivity is older than sessionTimeoutMs at the moment of the
\* deletion: activity recorded while the sweep runs is not erased.
C37_SweepErasesOnlyExpired == ~sweep.erasedFresh

(***************************************************************************)
(* Session selection keyboards: the open_project and attach_session        *)
(* branches of the callback_query handler (commands.ts 342-438).           *)
(***************************************************************************)
\* the instances of two projects whose backends run
ProjectInstances == {"project-foo", "project-bar"}

\* client.listSessions of an instance (a backend of the model holds at most
\* one session)
listSessions(instanceId) ==
    IF \E sid \in SessionIds : <<instanceId, sid>> \in backendSessions
    THEN <<CHOOSE sid \in SessionIds : <<instanceId, sid>> \in backendSessions>>
    ELSE <<>>

Keyboard(userId, entries) == [userId |-> userId, entries |-> entries]

\* open_project 347-380 for a project whose backend was found: the sessions
\* are listed, stored as the user's selection and shown as a keyboard; the
\* instance becomes the user's current one
OpenExistingProject(userId, instanceId) ==
    /\ LET sessions == listSessions(instanceId)
           selection == [i \in 1..Len(sessions) |->
                           [instanceId |-> instanceId, sessionId |-> sessions[i]]]
       IN  IF Len(sessions) > 0
           THEN /\ sessionSelections' =
                      (userId :> selection)
                      @@ [u \in DOMAIN sessionSelections \ {userId}
                            |-> sessionSelections[u]]
                /\ keyboards' = keyboards \cup {Keyboard(userId, selection)}
           ELSE UNCHANGED <<sessionSelections, keyboards>>
    /\ store' = storageSet(store, userId,
          [ensureUserState(userId) EXCEPT !.currentInstanceId = instanceId])
    /\ UNCHANGED <<backendSessions, usedSessions, messageBuffers, deliveries,
                   tasks, eventsLeft, fed, phase, lastRoute, lastAttach>>

\* attach_session 397-438: the user presses button i of a keyboard shown to
\* them (callback data attach_session:<i - 1>)
AttachPress(userId, k, i) ==
    /\ k \in keyboards /\ k.userId = userId /\ i \in 1..Len(k.entries)
    /\ LET selection == IF userId \in DOMAIN sessionSelections
                        THEN sessionSelections[userId] ELSE <<>>
           shown == <<k.entries[i].instanceId, k.entries[i].sessionId>>
       IN  IF i > Len(selection)
           THEN /\ lastAttach' = [pressed |-> TRUE, shown |-> shown,
                                  attached |-> <<"", "">>]
                /\ UNCHANGED routeVars
           ELSE /\ AttachSession(userId, selection[i].instanceId,
                                 selection[i].sessionId)
                /\ lastAttach' =
                      [pressed |-> TRUE, shown |-> shown,
                       attached |-> <<selection[i].instanceId,
                                      selection[i].sessionId>>]
    /\ UNCHANGED <<sessionSelections, keyboards>>

InitSelect ==
    /\ BotIdle /\ SweepIdle
    /\ LaunchIdle /\ StreamIdle /\ CallIdle /\ RouteStart
    /\ store = <<>>
    /\ backendSessions = { <<i, "s1">> : i \in ProjectInstances }
    /\ usedSessions = backendSessions
    /\ eventsLeft = 0
    /\ sessionSelections = <<>> /\ keyboards = {} /\ lastAttach = NoAttach

NextSelect ==
    \/ \E userId \in Users, i \in ProjectInstances :
          OpenExistingProject(userId, i)
    \/ \E userId \in Users, k \in keyboards, i \in 1..Cardinality(SessionIds) :
          AttachPress(userId, k, i)

SpecSelect ==
    InitSelect
    /\ [][NextSelect /\ UNCHANGED <<launchVars, streamVars, callVars, botVars,
                                   sweepVars>>]_vars

\* C39: pressing attach_session:i attaches the user to the session shown at
\* index i of the keyboard the button is on, on that keyboard's instance,
\* also when the user has opened another project in between.
C39_AttachesShownSession ==
    lastAttach.pressed => lastAttach.attached = lastAttach.shown

(***************************************************************************)
(* The delta assembler with two sessions of one user on one instance       *)
(* (part_002 73-111): the buffer key names the instance and the user.      *)
(***************************************************************************)
\* session s1 writes "a", session s2 writes "bc"
deltaOf(sid) == IF sid = "s1" THEN "a" ELSE "bc"
TwoSessionEvents ==
    { PartEvent(ConfigId, sid, deltaOf(sid)) : sid \in {"s1", "s2"} }
    \cup { CompleteEvent(ConfigId, sid, "assistant", TRUE) : sid \in {"s1", "s2"} }

\* user 1 has made two sessions on the default instance
InitTwoSessions ==
    /\ BotIdle /\ SweepIdle /\ SelectIdle
    /\ LaunchIdle /\ StreamIdle /\ CallIdle /\ RouteStart
    /\ store = (1 :> [NewUserState(1, ConfigId) EXCEPT
                        !.sessions = <<SessionInfo("s1", ConfigId),
                                       SessionInfo("s2", ConfigId)>>,
                        !.currentSessionId = "s2"])
    /\ backendSessions = {<<ConfigId, "s1">>, <<ConfigId, "s2">>}
    /\ usedSessions = backendSessions
    /\ eventsLeft = MaxEvents

NextTwoSessions ==
    \/ \E ev \in TwoSessionEvents : CallbackInTurn(ev)
    \/ \E t \in 1..Len(tasks), allKeys \in KeyOrders : TaskLookup(t, allKeys)
    \/ \E t \in 1..Len(tasks) : TaskSendDone(t)

SpecTwoSessions ==
    InitTwoSessions
    /\ [][NextTwoSessions /\ UNCHANGED <<launchVars, streamVars, callVars,
                                        botVars, sweepVars, selectVars>>]_vars

\* the text is a sequence of copies of the fragment
RECURSIVE MadeOf(_, _)
MadeOf(text, fragment) ==
    \/ text = ""
    \/ /\ Len(text) >= Len(fragment)
       /\ SubSeq(text, 1, Len(fragment)) = fragment
       /\ MadeOf(SubSeq(text, Len(fragment) + 1, Len(text)), fragment)

\* C40: the text delivered at the assistant completion of a session is made
\* of fragments of that session only, also when another session of the
\* same user on the same instance writes at the same time.
C40_CompletionDeliversOwnFragments ==
    \A t \in 1..Len(tasks) :
        (tasks[t].pc = "sending" /\ IsCompletion(tasks[t].ev))
        => MadeOf(deliveries[Len(deliveries)].text, deltaOf(tasks[t].ev.sessionId))

====
